---- MODULE Spec2Model ----
(***************************************************************************)
(* A model of the CHIP-8 virtual machine of chip8-rust: the CPU of         *)
(* src/src/cpu.rs (construction, load_rom, run_loop), the framebuffer and  *)
(* key mapping of src/src/window.rs, the sink of src/src/audio.rs and the  *)
(* helpers of src/src/util.rs.                                             *)
(*                                                                         *)
(* One step of the model is one call of load_rom, the entry into run_loop, *)
(* one iteration of run_loop's while loop, or the loop's exit.  A Rust     *)
(* panic (an index out of bounds, an arithmetic overflow under overflow    *)
(* checks) and an Err return end the run; status records which.            *)
(***************************************************************************)
EXTENDS Integers, Sequences, FiniteSets

\* ---------------------------------------------------------------- constants

\* src/src/cpu.rs:10-14
RAM_SIZE == 4096
REGISTER_COUNT == 16
STACK_SIZE == 16
RUNLOOP_TIMER_DEFAULT == 8
\* 0x200
PROGRAM_START == 512

\* src/src/window.rs:10-13; PX_OFF = 0x81c784, PX_ON = 0x29302a
WIDTH == 64
HEIGHT == 32
PX_OFF == 8505220
PX_ON == 2699306

\* src/src/cpu.rs:18-35, glyph d is RAM_DIGITS[d + 1] (TLA+ tuples start at 1)
RAM_DIGITS ==
    << <<240, 144, 144, 144, 240>>,
       << 32,  96,  32,  32, 112>>,
       <<240,  16, 240, 128, 240>>,
       <<240,  16, 240,  16, 240>>,
       <<144, 144, 240,  16,  16>>,
       <<240, 128, 240,  16, 240>>,
       <<240, 128, 240, 144, 240>>,
       <<240,  16,  32,  64,  64>>,
       <<240, 144, 240, 144, 240>>,
       <<240, 144, 240,  16, 240>>,
       <<240, 144, 240, 144, 144>>,
       <<224, 144, 224, 144, 224>>,
       <<240, 128, 128, 128, 240>>,
       <<224, 144, 144, 144, 224>>,
       <<240, 128, 240, 128, 240>>,
       <<240, 128, 240, 128, 128>> >>

\* ------------------------------------------------------------------- bounds

\* Iterations of the run loop that are explored.
MaxTicks == 20
\* ROM lengths are explored this far on either side of the largest one that
\* load_rom accepts.
RomSlack == 2

\* ------------------------------------------------------------ integer helpers

Byte == 0..255
Regs == 0..(REGISTER_COUNT - 1)

RECURSIVE Pow(_, _)
Pow(b, e) == IF e = 0 THEN 1 ELSE b * Pow(b, e - 1)

\* u8 & u8, u8 | u8, u8 ^ u8, bit by bit from the least significant one
RECURSIVE BitAnd(_, _)
BitAnd(a, b) ==
    IF a = 0 \/ b = 0 THEN 0
    ELSE (a % 2) * (b % 2) + 2 * BitAnd(a \div 2, b \div 2)

RECURSIVE BitOr(_, _)
BitOr(a, b) ==
    IF a = 0 THEN b
    ELSE IF b = 0 THEN a
    ELSE (IF a % 2 = 1 \/ b % 2 = 1 THEN 1 ELSE 0) + 2 * BitOr(a \div 2, b \div 2)

RECURSIVE BitXor(_, _)
BitXor(a, b) ==
    IF a = 0 THEN b
    ELSE IF b = 0 THEN a
    ELSE (((a % 2) + (b % 2)) % 2) + 2 * BitXor(a \div 2, b \div 2)

\* ------------------------------------------------------------ src/src/util.rs

\* ((n / base.pow(o)) % base.pow(d)) as usize, base = 0x10
get_hex_digits_swapped(n, d, o) == (n \div Pow(16, d)) % Pow(16, o)

get_hex_digits(n, d, o) == (n \div Pow(16, o)) % Pow(16, d)

\* byte & (1 << n) == 0 gives false, anything else true
is_bit_set(byte, n) == BitAnd(byte, Pow(2, n)) /= 0

get_bit(byte, n) == IF is_bit_set(byte, n) THEN 1 ELSE 0

\* ---------------------------------------------------------- src/src/window.rs

\* The keys of the host keyboard that the window can report (minifb::Key);
\* P stands for any key outside the keypad mapping.
HostKeys ==
    {"Key1", "Key2", "Key3", "Key4", "Q", "W", "E", "R",
     "A", "S", "D", "F", "Z", "X", "C", "V", "P"}

\* The match of handle_key_events: host key to keypad index, 16 for `_ => ()`
KeyIndex(k) ==
    CASE k = "Key1" -> 1  [] k = "Key2" -> 2  [] k = "Key3" -> 3  [] k = "Key4" -> 12
      [] k = "Q"    -> 4  [] k = "W"    -> 5  [] k = "E"    -> 6  [] k = "R"    -> 13
      [] k = "A"    -> 7  [] k = "S"    -> 8  [] k = "D"    -> 9  [] k = "F"    -> 14
      [] k = "Z"    -> 10 [] k = "X"    -> 0  [] k = "C"    -> 11 [] k = "V"    -> 15
      [] OTHER      -> 16

\* The [bool; 16] snapshot built from the host keys that are down (get_keys)
handle_key_events(down) == [j \in 0..15 |-> \E k \in down : KeyIndex(k) = j]

\* Every pixel set to PX_OFF
clear_screen(framebuffer) == [j \in DOMAIN framebuffer |-> PX_OFF]

\* The inner loop of draw, `for j in 0..8`, from column j on, for the k-th
\* byte b of the sprite.  d is [framebuffer, collision].  The old pixel is
\* read first (is_old_set), then the bit of the sprite decides.
RECURSIVE draw_row(_, _, _, _, _, _)
draw_row(d, b, init_x, init_y, k, j) ==
    IF j >= 8 THEN d
    ELSE LET x == (init_x + j) % WIDTH
             y == (init_y + k) % HEIGHT
             coord == (y * WIDTH) + x
             is_old_set == d.framebuffer[coord] = PX_ON
             hit == is_bit_set(b, 8 - j - 1)
         IN IF is_old_set
            THEN draw_row([framebuffer |-> [d.framebuffer EXCEPT
                                               ![coord] = IF hit THEN PX_OFF ELSE @],
                           collision |-> IF hit THEN 1 ELSE d.collision],
                          b, init_x, init_y, k, j + 1)
            ELSE draw_row([framebuffer |-> [d.framebuffer EXCEPT
                                               ![coord] = IF hit THEN PX_ON ELSE @],
                           collision |-> d.collision],
                          b, init_x, init_y, k, j + 1)

\* The outer loop of draw, `for (k, b) in bytes.iter().enumerate()`, from the
\* k-th byte on
RECURSIVE draw_rows(_, _, _, _, _)
draw_rows(d, bytes, init_x, init_y, k) ==
    IF k >= Len(bytes) THEN d
    ELSE draw_rows(draw_row(d, bytes[k + 1], init_x, init_y, k, 0),
                   bytes, init_x, init_y, k + 1)

\* Window::draw: the framebuffer after the blit and the collision byte returned
draw_opaque(framebuffer, bytes, init_x, init_y) ==
    LET d == draw_rows([framebuffer |-> framebuffer, collision |-> 0], bytes, init_x, init_y, 0)
    IN [d EXCEPT !.framebuffer =
            [c \in DOMAIN framebuffer |->
                IF d.framebuffer[c] # framebuffer[c] THEN PX_ON ELSE framebuffer[c]]]

draw(framebuffer, bytes, init_x, init_y) ==
    draw_rows([framebuffer |-> framebuffer, collision |-> 0], bytes, init_x, init_y, 0)

\* ------------------------------------------------------------- src/src/cpu.rs

VARIABLES
    ram,                  \* CPU.ram: [u8; RAM_SIZE]
    v,                    \* CPU.v: [u8; REGISTER_COUNT]
    i,                    \* CPU.i, the memory address register (usize)
    dt,                   \* CPU.dt, the delay timer
    st,                   \* CPU.st, the sound timer
    stack,                \* CPU.stack: [usize; STACK_SIZE]
    sp,                   \* CPU.sp, the stack pointer
    pc,                   \* CPU.pc, the program counter
    framebuffer,          \* Window.framebuffer: [u32; WIDTH * HEIGHT]
    playing,              \* the audio sink: TRUE after play(), FALSE after pause()
    executing,            \* run_loop's local
    waiting_for_keypress, \* run_loop's local
    store_keypress_in,    \* run_loop's local
    time_to_runloop,      \* run_loop's local
    keys_pressed,         \* run_loop's local: the snapshot of the last iteration
    instruction,          \* run_loop's local: the word fetched by the last iteration
    status,               \* "new", "loaded", "running", or how it ended: "ok", an Err message, "panic"
    rom,                  \* the argument of load_rom
    overflow_checks,      \* the build: "on" (debug), "off" (release), "unobserved" until it matters
    ticks,                \* history: iterations of the run loop entered so far
    dispatched,           \* history: the last iteration entered the `if executing` block
    call_sites,           \* history: [site, depth] of the calls not yet returned from, oldest first
    keys_before,          \* history: the snapshot before keys_pressed, kept for iterations entered waiting
    timer_steps,          \* history: the iterations (counted from 1) that ran the timer step
    cancelled             \* history: the last test of the loop condition found the window closed or escape down

vars ==
    <<ram, v, i, dt, st, stack, sp, pc, framebuffer, playing, executing,
      waiting_for_keypress, store_keypress_in, time_to_runloop, keys_pressed,
      instruction, status, rom, overflow_checks, ticks, dispatched, call_sites,
      keys_before, timer_steps, cancelled>>

\* CPU::preload_ram: glyph j at 0x10 * j .. 0x10 * j + 4, over a zeroed RAM
preload_ram_packed(mem) ==
    [a \in DOMAIN mem |->
        IF a \div 5 < Len(RAM_DIGITS)
        THEN RAM_DIGITS[(a \div 5) + 1][(a % 5) + 1]
        ELSE mem[a]]

preload_ram(mem) ==
    [a \in DOMAIN mem |->
        IF a \div 16 < Len(RAM_DIGITS) /\ a % 16 < 5
        THEN RAM_DIGITS[(a \div 16) + 1][(a % 16) + 1]
        ELSE mem[a]]

\* CPU::load_rom: [ok, ram]
load_rom_too_large_strict(bytes) == PROGRAM_START + Len(bytes) > RAM_SIZE

load_rom_too_large(bytes) == PROGRAM_START + Len(bytes) >= RAM_SIZE

load_rom(mem, bytes) ==
    IF load_rom_too_large(bytes)
    THEN [ok |-> FALSE, ram |-> mem]
    ELSE [ok |-> TRUE,
          ram |-> [a \in DOMAIN mem |->
                     IF a >= PROGRAM_START /\ a - PROGRAM_START < Len(bytes)
                     THEN bytes[a - PROGRAM_START + 1]
                     ELSE mem[a]]]

\* ---- the arms of run_loop's match, each on the machine record c:
\* the CPU's fields, the framebuffer, run_loop's locals, next_instruction, and
\* outcome: "continue", the message of the Err returned, or "panic".

Panic(c) == [c EXCEPT !.outcome = "panic"]

\* The two Err values of run_loop
ERR_STACK_EMPTY == "Stack empty, cannot return from subroutine!"
ERR_STACK_FULL == "Stack full, cannot push!"
\* The Err value of load_rom
ERR_ROM_TOO_LARGE == "Out of memory: program too large"

\* 0x00ee, return from subroutine
ret_wrong_error(c) ==
    IF c.sp = 0 THEN [c EXCEPT !.outcome = ERR_STACK_FULL]
    ELSE [c EXCEPT !.sp = c.sp - 1, !.pc = c.stack[c.sp - 1]]

ret_no_advance(c) ==
    IF c.sp = 0 THEN [c EXCEPT !.outcome = ERR_STACK_EMPTY]
    ELSE [c EXCEPT !.sp = c.sp - 1, !.pc = c.stack[c.sp - 1], !.next_instruction = FALSE]

ret(c) ==
    IF c.sp = 0 THEN [c EXCEPT !.outcome = ERR_STACK_EMPTY]
    ELSE [c EXCEPT !.sp = c.sp - 1, !.pc = c.stack[c.sp - 1]]

\* 0x1000..=0x1fff, jump to xyz
jump(c, ins) == [c EXCEPT !.pc = get_hex_digits(ins, 3, 0), !.next_instruction = FALSE]

\* 0x2000..=0x2fff, call xyz
call_push_next(c, ins) ==
    LET loc == get_hex_digits(ins, 3, 0) IN
    IF c.sp = STACK_SIZE THEN [c EXCEPT !.outcome = ERR_STACK_FULL]
    ELSE [c EXCEPT !.stack = [c.stack EXCEPT ![c.sp] = c.pc + 2],
                   !.sp = c.sp + 1,
                   !.pc = loc,
                   !.next_instruction = FALSE]

call_early_full(c, ins) ==
    LET loc == get_hex_digits(ins, 3, 0) IN
    IF c.sp = STACK_SIZE - 1 THEN [c EXCEPT !.outcome = ERR_STACK_FULL]
    ELSE [c EXCEPT !.stack = [c.stack EXCEPT ![c.sp] = c.pc],
                   !.sp = c.sp + 1,
                   !.pc = loc,
                   !.next_instruction = FALSE]

call_unchecked(c, ins) ==
    LET loc == get_hex_digits(ins, 3, 0) IN
    [c EXCEPT !.stack = [j \in DOMAIN c.stack |-> IF j = c.sp THEN c.pc ELSE c.stack[j]],
              !.sp = c.sp + 1,
              !.pc = loc,
              !.next_instruction = FALSE]

call(c, ins) ==
    LET loc == get_hex_digits(ins, 3, 0) IN
    IF c.sp = STACK_SIZE THEN [c EXCEPT !.outcome = ERR_STACK_FULL]
    ELSE [c EXCEPT !.stack = [c.stack EXCEPT ![c.sp] = c.pc],
                   !.sp = c.sp + 1,
                   !.pc = loc,
                   !.next_instruction = FALSE]

\* 0x3000..=0x3fff, skip if Vx == yz
skip_eq_imm(c, ins) ==
    LET val == get_hex_digits(ins, 2, 0)
        reg == get_hex_digits(ins, 1, 2)
    IN IF c.v[reg] = val % 256 THEN [c EXCEPT !.pc = c.pc + 2] ELSE c

\* 0x4000..=0x4fff, skip if Vx != yz
skip_ne_imm_inverted(c, ins) ==
    LET val == get_hex_digits(ins, 2, 0)
        reg == get_hex_digits(ins, 1, 2)
    IN IF c.v[reg] = val % 256 THEN [c EXCEPT !.pc = c.pc + 2] ELSE c

skip_ne_imm(c, ins) ==
    LET val == get_hex_digits(ins, 2, 0)
        reg == get_hex_digits(ins, 1, 2)
    IN IF c.v[reg] /= val % 256 THEN [c EXCEPT !.pc = c.pc + 2] ELSE c

\* 0x5000..=0x5fff, skip if Vx == Vy
skip_eq_reg(c, ins) ==
    LET reg1 == get_hex_digits(ins, 1, 2)
        reg2 == get_hex_digits(ins, 1, 1)
    IN IF c.v[reg1] = c.v[reg2] THEN [c EXCEPT !.pc = c.pc + 2] ELSE c

\* 0x6000..=0x6fff, Vx = yz
load_imm(c, ins) ==
    LET val == get_hex_digits(ins, 2, 0)
        reg == get_hex_digits(ins, 1, 2)
    IN [c EXCEPT !.v = [c.v EXCEPT ![reg] = val % 256]]

\* 0x7000..=0x7fff, Vx = Vx + yz, overflow ignored
add_imm(c, ins) ==
    LET val == get_hex_digits(ins, 2, 0)
        reg == get_hex_digits(ins, 1, 2)
    IN [c EXCEPT !.v = [c.v EXCEPT ![reg] = (c.v[reg] + (val % 256)) % 256]]

\* ---- 0x8000..=0x8fff: the arms of the inner match on the last digit, each
\* from the register file to the register file, the writes in the code's order

\* 0x4: Vx = Vx + Vy, VF = 1 if overflow else 0 (u8::overflowing_add)
add_carry_swapped(regs, reg1, reg2) ==
    LET sum == regs[reg1] + regs[reg2]
        flagged == [regs EXCEPT ![15] = IF sum > 255 THEN 1 ELSE 0]
    IN [flagged EXCEPT ![reg1] = sum % 256]

add_carry(regs, reg1, reg2) ==
    LET sum == regs[reg1] + regs[reg2]
        res == sum % 256
        over == sum > 255
        stored == [regs EXCEPT ![reg1] = res]
    IN [stored EXCEPT ![15] = IF over THEN 1 ELSE 0]

\* 0x5: Vx = Vx - Vy, VF = 0 if borrow else 1 (u8::overflowing_sub)
sub_borrow_strict(regs, reg1, reg2) ==
    LET res == (regs[reg1] - regs[reg2] + 256) % 256
        stored == [regs EXCEPT ![reg1] = res]
    IN [stored EXCEPT ![15] = IF regs[reg1] > regs[reg2] THEN 1 ELSE 0]

sub_borrow(regs, reg1, reg2) ==
    LET res == (regs[reg1] - regs[reg2] + 256) % 256
        over == regs[reg1] < regs[reg2]
        stored == [regs EXCEPT ![reg1] = res]
    IN [stored EXCEPT ![15] = IF over THEN 0 ELSE 1]

\* 0x6: VF = bit 0 of Vx, then Vx = Vx >> 1
shift_right_late_flag(regs, reg1) ==
    LET res == regs[reg1] \div 2
        stored == [regs EXCEPT ![reg1] = res]
    IN [stored EXCEPT ![15] = get_bit(stored[reg1], 0)]

shift_right(regs, reg1) ==
    LET res == regs[reg1] \div 2
        flagged == [regs EXCEPT ![15] = get_bit(regs[reg1], 0)]
    IN [flagged EXCEPT ![reg1] = res]

\* 0x7: Vx = Vy - Vx, VF = 0 if borrow else 1
sub_reverse(regs, reg1, reg2) ==
    LET res == (regs[reg2] - regs[reg1] + 256) % 256
        over == regs[reg2] < regs[reg1]
        stored == [regs EXCEPT ![reg1] = res]
    IN [stored EXCEPT ![15] = IF over THEN 0 ELSE 1]

\* 0xe: VF = bit 7 of Vx, then Vx = Vx << 1
shift_left(regs, reg1) ==
    LET res == (regs[reg1] * 2) % 256
        flagged == [regs EXCEPT ![15] = get_bit(regs[reg1], 7)]
    IN [flagged EXCEPT ![reg1] = res]

\* 0x8000..=0x8fff
alu(c, ins) ==
    LET lsb  == get_hex_digits(ins, 1, 0)
        reg1 == get_hex_digits(ins, 1, 2)
        reg2 == get_hex_digits(ins, 1, 1)
        regs == c.v
    IN CASE lsb = 0  -> [c EXCEPT !.v = [regs EXCEPT ![reg1] = regs[reg2]]]
         [] lsb = 1  -> [c EXCEPT !.v = [regs EXCEPT ![reg1] = BitOr(regs[reg1], regs[reg2])]]
         [] lsb = 2  -> [c EXCEPT !.v = [regs EXCEPT ![reg1] = BitAnd(regs[reg1], regs[reg2])]]
         [] lsb = 3  -> [c EXCEPT !.v = [regs EXCEPT ![reg1] = BitXor(regs[reg1], regs[reg2])]]
         [] lsb = 4  -> [c EXCEPT !.v = add_carry(regs, reg1, reg2)]
         [] lsb = 5  -> [c EXCEPT !.v = sub_borrow(regs, reg1, reg2)]
         [] lsb = 6  -> [c EXCEPT !.v = shift_right(regs, reg1)]
         [] lsb = 7  -> [c EXCEPT !.v = sub_reverse(regs, reg1, reg2)]
         [] lsb = 14 -> [c EXCEPT !.v = shift_left(regs, reg1)]
         [] OTHER    -> c

\* 0x9000..=0x9fff, skip if Vx != Vy
skip_ne_reg(c, ins) ==
    LET reg1 == get_hex_digits(ins, 1, 2)
        reg2 == get_hex_digits(ins, 1, 1)
    IN IF c.v[reg1] /= c.v[reg2] THEN [c EXCEPT !.pc = c.pc + 2] ELSE c

\* 0xa000..=0xafff, I = xyz
load_i(c, ins) == [c EXCEPT !.i = get_hex_digits(ins, 3, 0)]

\* 0xb000..=0xbfff, jump to xyz + V0
jump_v0(c, ins) ==
    [c EXCEPT !.pc = get_hex_digits(ins, 3, 0) + c.v[0], !.next_instruction = FALSE]

\* 0xc000..=0xcfff, Vx = random byte AND yz; rnd is what rand::random returned
random_and(c, ins, rnd) ==
    LET val == get_hex_digits(ins, 2, 0)
        reg == get_hex_digits(ins, 1, 2)
    IN [c EXCEPT !.v = [c.v EXCEPT ![reg] = BitAnd(rnd, val % 256)]]

\* 0xd000..=0xdfff, draw z bytes from ram[I..] at (Vx, Vy); reading past the
\* end of ram panics before anything is drawn
draw_sprite_keep_flag(c, ins) ==
    LET reg1 == get_hex_digits(ins, 1, 2)
        reg2 == get_hex_digits(ins, 1, 1)
        init_x == c.v[reg1]
        init_y == c.v[reg2]
        byte_count == get_hex_digits(ins, 1, 0)
    IN IF byte_count > 0 /\ c.i + byte_count - 1 >= RAM_SIZE THEN Panic(c)
       ELSE LET bytes_to_print == [j \in 1..byte_count |-> c.ram[c.i + j - 1]]
                drawn == draw(c.framebuffer, bytes_to_print, init_x, init_y)
            IN [c EXCEPT !.framebuffer = drawn.framebuffer]

draw_sprite(c, ins) ==
    LET reg1 == get_hex_digits(ins, 1, 2)
        reg2 == get_hex_digits(ins, 1, 1)
        init_x == c.v[reg1]
        init_y == c.v[reg2]
        byte_count == get_hex_digits(ins, 1, 0)
    IN IF byte_count > 0 /\ c.i + byte_count - 1 >= RAM_SIZE THEN Panic(c)
       ELSE LET bytes_to_print == [j \in 1..byte_count |-> c.ram[c.i + j - 1]]
                drawn == draw(c.framebuffer, bytes_to_print, init_x, init_y)
            IN [c EXCEPT !.framebuffer = drawn.framebuffer,
                         !.v = [c.v EXCEPT ![15] = drawn.collision]]

\* ---- 0xe000..=0xff65: the arms of the if/else-if chain on the digits

\* Ex9E: skip if key Vx is down; keys[Vx] with Vx > 15 is out of bounds
skip_key_down(c, d2, keys) ==
    IF c.v[d2] \notin DOMAIN keys THEN Panic(c)
    ELSE IF keys[c.v[d2]] THEN [c EXCEPT !.pc = c.pc + 2] ELSE c

\* ExA1: skip if key Vx is not down
skip_key_up(c, d2, keys) ==
    IF c.v[d2] \notin DOMAIN keys THEN Panic(c)
    ELSE IF ~keys[c.v[d2]] THEN [c EXCEPT !.pc = c.pc + 2] ELSE c

\* Fx07: Vx = delay timer
get_delay(c, d2) == [c EXCEPT !.v = [c.v EXCEPT ![d2] = c.dt]]

\* Fx0A: stop execution until keypress
wait_key(c, d2) ==
    [c EXCEPT !.executing = FALSE, !.waiting_for_keypress = TRUE, !.store_keypress_in = d2]

\* Fx15: delay timer = Vx
set_delay(c, d2) == [c EXCEPT !.dt = c.v[d2]]

\* Fx18: sound timer = Vx
set_sound(c, d2) == [c EXCEPT !.st = c.v[d2]]

\* Fx1E: I += Vx (usize, no wrap in reach)
add_i(c, d2) == [c EXCEPT !.i = c.i + c.v[d2]]

\* Fx29: I = (0x10 * Vx) as usize, the product computed in u8: above 255 it
\* panics under overflow checks and wraps without them
glyph_overflows(c, d2) == 16 * c.v[d2] > 255

glyph_addr(c, d2, checks) ==
    IF glyph_overflows(c, d2) /\ checks THEN Panic(c)
    ELSE [c EXCEPT !.i = (16 * c.v[d2]) % 256]

\* Fx33: ram[I], ram[I+1], ram[I+2] = hundreds, tens, ones of Vx, one write
\* after the other; the first index past the end of ram panics
store_bcd_ones_first(c, d2) ==
    LET c1 == [c  EXCEPT !.ram = [c.ram  EXCEPT ![c.i]     = c.v[d2] % 10]]
        c2 == [c1 EXCEPT !.ram = [c1.ram EXCEPT ![c.i + 1] = (c.v[d2] % 100) \div 10]]
        c3 == [c2 EXCEPT !.ram = [c2.ram EXCEPT ![c.i + 2] = c.v[d2] \div 100]]
    IN IF c.i >= RAM_SIZE THEN Panic(c)
       ELSE IF c.i + 1 >= RAM_SIZE THEN Panic(c1)
       ELSE IF c.i + 2 >= RAM_SIZE THEN Panic(c2)
       ELSE c3

store_bcd(c, d2) ==
    LET c1 == [c  EXCEPT !.ram = [c.ram  EXCEPT ![c.i]     = c.v[d2] \div 100]]
        c2 == [c1 EXCEPT !.ram = [c1.ram EXCEPT ![c.i + 1] = (c.v[d2] % 100) \div 10]]
        c3 == [c2 EXCEPT !.ram = [c2.ram EXCEPT ![c.i + 2] = c.v[d2] % 10]]
    IN IF c.i >= RAM_SIZE THEN Panic(c)
       ELSE IF c.i + 1 >= RAM_SIZE THEN Panic(c1)
       ELSE IF c.i + 2 >= RAM_SIZE THEN Panic(c2)
       ELSE c3

\* Fx55: for j in 0..=x, ram[I + j] = V[j].  The indices ascend, so the writes
\* done before a panic are those with I + j inside ram.
store_regs(c, d2) ==
    LET written == [c EXCEPT !.ram =
                      [a \in DOMAIN c.ram |->
                          IF a >= c.i /\ a - c.i <= d2 THEN c.v[a - c.i] ELSE c.ram[a]]]
    IN IF c.i + d2 >= RAM_SIZE THEN Panic(written) ELSE written

\* Fx65: for j in 0..=x, V[j] = ram[I + j], the same way
load_regs_exclusive(c, d2) ==
    LET loaded == [c EXCEPT !.v =
                     [j \in DOMAIN c.v |->
                         IF j < d2 /\ c.i + j < RAM_SIZE THEN c.ram[c.i + j] ELSE c.v[j]]]
    IN IF c.i + d2 >= RAM_SIZE THEN Panic(loaded) ELSE loaded

load_regs(c, d2) ==
    LET loaded == [c EXCEPT !.v =
                     [j \in DOMAIN c.v |->
                         IF j <= d2 /\ c.i + j < RAM_SIZE THEN c.ram[c.i + j] ELSE c.v[j]]]
    IN IF c.i + d2 >= RAM_SIZE THEN Panic(loaded) ELSE loaded

\* 0xe000..=0xff65
key_timer_memory(c, ins, keys, checks) ==
    LET d1 == get_hex_digits(ins, 1, 3)
        d2 == get_hex_digits(ins, 1, 2)
        d3 == get_hex_digits(ins, 1, 1)
        d4 == get_hex_digits(ins, 1, 0)
    IN      IF d1 = 14 /\ d3 = 9  /\ d4 = 14 THEN skip_key_down(c, d2, keys)
       ELSE IF d1 = 14 /\ d3 = 10 /\ d4 = 1  THEN skip_key_up(c, d2, keys)
       ELSE IF d1 = 15 /\ d3 = 0  /\ d4 = 7  THEN get_delay(c, d2)
       ELSE IF d1 = 15 /\ d3 = 0  /\ d4 = 10 THEN wait_key(c, d2)
       ELSE IF d1 = 15 /\ d3 = 1  /\ d4 = 5  THEN set_delay(c, d2)
       ELSE IF d1 = 15 /\ d3 = 1  /\ d4 = 8  THEN set_sound(c, d2)
       ELSE IF d1 = 15 /\ d3 = 1  /\ d4 = 14 THEN add_i(c, d2)
       ELSE IF d1 = 15 /\ d3 = 2  /\ d4 = 9  THEN glyph_addr(c, d2, checks)
       ELSE IF d1 = 15 /\ d3 = 3  /\ d4 = 3  THEN store_bcd(c, d2)
       ELSE IF d1 = 15 /\ d3 = 5  /\ d4 = 5  THEN store_regs(c, d2)
       ELSE IF d1 = 15 /\ d3 = 6  /\ d4 = 5  THEN load_regs(c, d2)
       ELSE c

\* The match on the instruction word, first arm that matches
\* (0x00e0 = 224, 0x00ee = 238, 0x1000 = 4096, ..., 0xff65 = 65381)
execute(c, ins, keys, rnd, checks) ==
    CASE ins = 224  -> [c EXCEPT !.framebuffer = clear_screen(c.framebuffer)]
      [] ins = 238  -> ret(c)
      [] ins \in 4096..8191   -> jump(c, ins)
      [] ins \in 8192..12287  -> call(c, ins)
      [] ins \in 12288..16383 -> skip_eq_imm(c, ins)
      [] ins \in 16384..20479 -> skip_ne_imm(c, ins)
      [] ins \in 20480..24575 -> skip_eq_reg(c, ins)
      [] ins \in 24576..28671 -> load_imm(c, ins)
      [] ins \in 28672..32767 -> add_imm(c, ins)
      [] ins \in 32768..36863 -> alu(c, ins)
      [] ins \in 36864..40959 -> skip_ne_reg(c, ins)
      [] ins \in 40960..45055 -> load_i(c, ins)
      [] ins \in 45056..49151 -> jump_v0(c, ins)
      [] ins \in 49152..53247 -> random_and(c, ins, rnd)
      [] ins \in 53248..57343 -> draw_sprite(c, ins)
      [] ins \in 57344..65381 -> key_timer_memory(c, ins, keys, checks)
      [] OTHER -> c

\* `if next_instruction { self.pc += 2 }`, reached unless the arm returned or panicked
advance(c) ==
    IF c.outcome = "continue" /\ c.next_instruction
    THEN [c EXCEPT !.pc = c.pc + 2]
    ELSE c

\* ---- one iteration of run_loop's while loop

\* The for loop over keys_pressed: while waiting, the first key that is down
\* (ascending index) resumes execution and is stored in V[store_keypress_in]
wake_first_highest(c, keys) ==
    LET j == CHOOSE k \in DOMAIN keys : keys[k] /\ \A m \in DOMAIN keys : m > k => ~keys[m]
    IN [c EXCEPT !.executing = TRUE,
                 !.waiting_for_keypress = FALSE,
                 !.v = [c.v EXCEPT ![c.store_keypress_in] = j]]

wake_first(c, keys) ==
    LET j == CHOOSE k \in DOMAIN keys : keys[k] /\ \A m \in DOMAIN keys : m < k => ~keys[m]
    IN [c EXCEPT !.executing = TRUE,
                 !.waiting_for_keypress = FALSE,
                 !.v = [c.v EXCEPT ![c.store_keypress_in] = j]]

wake(c, keys) ==
    IF c.waiting_for_keypress /\ (\E k \in DOMAIN keys : keys[k])
    THEN wake_first(c, keys)
    ELSE c

\* ram[pc] and ram[pc + 1] are both inside ram
fetchable(c) == c.pc < RAM_SIZE /\ c.pc + 1 < RAM_SIZE

\* instruction = (b1 * 256) + b2
fetch(c) == (c.ram[c.pc] * 256) + c.ram[c.pc + 1]

\* `if time_to_runloop == 0 { ... } else { time_to_runloop -= 1 }`; refresh
\* presents the framebuffer and changes nothing of the machine
timer_step_gate_late(c) ==
    IF c.time_to_runloop = 0
    THEN [c EXCEPT !.dt = IF c.dt > 0 THEN c.dt - 1 ELSE c.dt,
                   !.st = IF c.st > 0 THEN c.st - 1 ELSE c.st,
                   !.playing = (c.st > 1),
                   !.time_to_runloop = RUNLOOP_TIMER_DEFAULT]
    ELSE [c EXCEPT !.time_to_runloop = c.time_to_runloop - 1]

timer_step_wrapping(c) ==
    IF c.time_to_runloop = 0
    THEN [c EXCEPT !.dt = (c.dt + 255) % 256,
                   !.st = IF c.st > 0 THEN c.st - 1 ELSE c.st,
                   !.playing = (c.st > 0),
                   !.time_to_runloop = RUNLOOP_TIMER_DEFAULT]
    ELSE [c EXCEPT !.time_to_runloop = c.time_to_runloop - 1]

timer_step_stalls_at_one(c) ==
    IF c.time_to_runloop = 0
    THEN [c EXCEPT !.dt = IF c.dt > 1 THEN c.dt - 1 ELSE c.dt,
                   !.st = IF c.st > 1 THEN c.st - 1 ELSE c.st,
                   !.playing = (c.st > 0),
                   !.time_to_runloop = RUNLOOP_TIMER_DEFAULT]
    ELSE [c EXCEPT !.time_to_runloop = c.time_to_runloop - 1]

timer_step(c) ==
    IF c.time_to_runloop = 0
    THEN [c EXCEPT !.dt = IF c.dt > 0 THEN c.dt - 1 ELSE c.dt,
                   !.st = IF c.st > 0 THEN c.st - 1 ELSE c.st,
                   !.playing = (c.st > 0),
                   !.time_to_runloop = RUNLOOP_TIMER_DEFAULT]
    ELSE [c EXCEPT !.time_to_runloop = c.time_to_runloop - 1]

\* The body of the while loop: poll, wake, fetch, execute, timers.  A panic or
\* an Err return leaves the loop at once, the timers not stepped.
loop_body(c, keys, rnd, checks) ==
    LET woken == [wake(c, keys) EXCEPT !.next_instruction = TRUE]
    IN IF ~fetchable(woken) THEN [Panic(woken) EXCEPT !.dispatched = FALSE]
       ELSE LET ins == fetch(woken)
                fetched == [woken EXCEPT !.instruction = ins,
                                         !.dispatched = woken.executing]
                ran == IF woken.executing
                       THEN advance(execute(fetched, ins, keys, rnd, checks))
                       ELSE fetched
            IN IF ran.outcome = "continue" THEN timer_step(ran) ELSE ran

\* The loop condition, without the window's part: self.pc <= RAM_SIZE
pc_in_loop_range(p) == p <= RAM_SIZE

\* The condition of the while loop: win.is_open(), escape up, pc in range
loop_condition_escape_late(is_open, escape, p) == is_open /\ pc_in_loop_range(p)

loop_condition(is_open, escape, p) == is_open /\ ~escape /\ pc_in_loop_range(p)

\* ---- the state machine

Machine ==
    [ram |-> ram, v |-> v, i |-> i, dt |-> dt, st |-> st, stack |-> stack,
     sp |-> sp, pc |-> pc, framebuffer |-> framebuffer, playing |-> playing,
     executing |-> executing, waiting_for_keypress |-> waiting_for_keypress,
     store_keypress_in |-> store_keypress_in, time_to_runloop |-> time_to_runloop,
     instruction |-> instruction, dispatched |-> dispatched,
     next_instruction |-> TRUE, outcome |-> "continue"]

\* Whether the word at pc is one whose effect depends on the build's overflow
\* checks or on the random source (so that only then the choice is drawn)
IsCall(ins) == ins \in 8192..12287
IsRet(ins) == ins = 238
IsRandom(ins) == ins \in 49152..53247
IsGlyph(ins) ==
    /\ ins \in 57344..65381
    /\ get_hex_digits(ins, 1, 3) = 15
    /\ get_hex_digits(ins, 1, 1) = 2
    /\ get_hex_digits(ins, 1, 0) = 9

\* ---- the inputs that are explored

\* What the window reports as down in one iteration: nothing, one keypad key,
\* two keypad keys and a key outside the keypad (keypad 7; keypad 1 and 7)
HostKeySets == {{}, {"A"}, {"Key1", "A", "P"}}

\* What rand::random::<u8>() returns
RandomBytes == {0, 1, 127, 128, 255}

\* Register indices the generated programs use
RegSample == {0, 7, 15}

\* An instruction word from its four hex digits, from a digit, a register and
\* a byte, and from a digit and an address
Op(d1, d2, d3, d4) == d1 * 4096 + d2 * 256 + d3 * 16 + d4
OpImm(d1, x, kk) == d1 * 4096 + x * 256 + kk
OpAddr(d1, nnn) == d1 * 4096 + nnn

\* The bytes of a program given as instruction words, big-endian
RECURSIVE Bytes(_)
Bytes(ws) ==
    IF ws = <<>> THEN <<>>
    ELSE <<Head(ws) \div 256, Head(ws) % 256>> \o Bytes(Tail(ws))

\* Cx FF, Cy FF, 8xyz, 00EE: two random registers, one ALU instruction, and a
\* return on the empty stack that ends the run
ArithRoms ==
    { Bytes(<<OpImm(12, x, 255), OpImm(12, y, 255), Op(8, x, y, z), Op(0, 0, 14, 14)>>) :
        x \in RegSample, y \in RegSample, z \in {4, 5, 6, 7, 14} }

\* The two addition scenarios: 600A 6105 8014 and 6FFF 6E01 8EF4
ScenarioRoms ==
    { <<96, 10, 97, 5, 128, 20>>, <<111, 255, 110, 1, 142, 244>> }

\* Calls and returns
StackRoms ==
    { \* 2200 at 0x200: the call calls itself
      Bytes(<<OpAddr(2, 512)>>),
      \* 00EE first
      Bytes(<<Op(0, 0, 14, 14)>>),
      \* 0x200: 2204, 0x202: 00EE, 0x204: 2208, 0x206: 00EE, 0x208: 00EE
      Bytes(<<OpAddr(2, 516), Op(0, 0, 14, 14), OpAddr(2, 520),
              Op(0, 0, 14, 14), Op(0, 0, 14, 14)>>),
      \* 0x200: 6005, 0x202: 2206, 0x204: 1202, 0x206: 00EE: call, return, again
      Bytes(<<OpImm(6, 0, 5), OpAddr(2, 518), OpAddr(1, 514), Op(0, 0, 14, 14)>>),
      \* 0x200: 2204, 0x202: 2200, 0x204: 00EE: returns and calls again, to depth 16
      Bytes(<<OpAddr(2, 516), OpAddr(2, 512), Op(0, 0, 14, 14)>>) }

\* Programs that take the program counter to the end of ram and past it
EdgeRoms ==
    { Bytes(<<OpAddr(1, 4095)>>),                       \* 1FFF
      Bytes(<<OpAddr(1, 4094)>>),                       \* 1FFE, then 0000 at 0xFFE
      Bytes(<<OpAddr(1, 4092)>>),                       \* 1FFC
      Bytes(<<OpImm(6, 0, 1), OpAddr(11, 4094)>>),      \* 6001 BFFE: pc = 4095
      Bytes(<<OpImm(6, 0, 2), OpAddr(11, 4094)>>),      \* 6002 BFFE: pc = 4096
      Bytes(<<OpImm(6, 0, 3), OpAddr(11, 4094)>>),      \* 6003 BFFE: pc = 4097
      Bytes(<<OpImm(6, 0, 255), OpAddr(11, 4095)>>) }   \* 60FF BFFF: pc = 4350

\* Programs that index ram, the keys or the glyphs out of range
FaultRoms ==
    { Bytes(<<OpImm(6, 0, 200), OpAddr(10, 4095), Op(15, 0, 3, 3)>>),    \* 60C8 AFFF F033
      Bytes(<<OpImm(6, 0, 200), OpAddr(10, 4094), Op(15, 0, 3, 3)>>),    \* 60C8 AFFE F033
      Bytes(<<OpImm(6, 0, 200), OpAddr(10, 4093), Op(15, 0, 3, 3),
              Op(0, 0, 14, 14)>>),                                       \* 60C8 AFFD F033 00EE
      Bytes(<<OpImm(6, 0, 9), OpImm(6, 1, 8), OpAddr(10, 4095),
              Op(15, 1, 5, 5)>>),                                        \* 6009 6108 AFFF F155
      Bytes(<<OpImm(6, 0, 9), OpImm(6, 1, 8), OpAddr(10, 4095),
              Op(15, 1, 6, 5)>>),                                        \* 6009 6108 AFFF F165
      Bytes(<<OpImm(6, 0, 9), OpImm(6, 1, 8), OpAddr(10, 4094),
              Op(15, 1, 5, 5), Op(15, 1, 6, 5), Op(0, 0, 14, 14)>>),     \* in range
      Bytes(<<OpAddr(10, 4095), Op(13, 0, 0, 2)>>),                      \* AFFF D002
      Bytes(<<OpAddr(10, 4095), OpImm(6, 0, 255), Op(15, 0, 1, 14),
              Op(15, 0, 3, 3)>>),                                        \* AFFF 60FF F01E F033
      Bytes(<<OpImm(6, 0, 16), Op(14, 0, 9, 14)>>),                      \* 6010 E09E
      Bytes(<<OpImm(6, 0, 16), Op(15, 0, 2, 9), Op(0, 0, 14, 14)>>) }    \* 6010 F029 00EE

\* ROMs around the largest size that fits: 00 EE EE EE ...
FillRoms ==
    { [j \in 1..n |-> IF j = 1 THEN 0 ELSE 238] :
        n \in (RAM_SIZE - PROGRAM_START - 1 - RomSlack)..(RAM_SIZE - PROGRAM_START - 1 + RomSlack) }
    \cup { <<>>, <<0>> }

\* Programs that wait for a key
KeyRoms ==
    { Bytes(<<Op(15, 7, 0, 10), Op(0, 0, 14, 14)>>),                     \* F70A 00EE
      Bytes(<<Op(15, 7, 0, 10), OpImm(6, 1, 5), Op(0, 0, 14, 14)>>),     \* F70A 6105 00EE
      Bytes(<<OpImm(6, 0, 3), Op(15, 0, 1, 5), OpImm(6, 1, 2), Op(15, 1, 1, 8),
              Op(15, 7, 0, 10), Op(0, 0, 14, 14)>>),                     \* 6003 F015 6102 F118 F70A 00EE
      \* 60F0 610A AFFE F155 1FFE: writes F00A at 0xFFE and runs it, pc = 4096 while waiting
      Bytes(<<OpImm(6, 0, 240), OpImm(6, 1, 10), OpAddr(10, 4094), Op(15, 1, 5, 5),
              OpAddr(1, 4094)>>) }

\* Programs that set the timers: 60aa 61bb F015 F118 1208 sets both and spins;
\* the last one sets the delay timer in the ninth iteration and the sound timer
\* in the tenth
TimerRoms ==
    { Bytes(<<OpImm(6, 0, a), OpImm(6, 1, b), Op(15, 0, 1, 5), Op(15, 1, 1, 8),
              OpAddr(1, PROGRAM_START + 8)>>) :
        a \in {0, 1, 3}, b \in {0, 1, 3} }
    \cup { Bytes(<<OpImm(6, 0, 5), OpImm(6, 1, 1), OpImm(6, 1, 2), OpImm(6, 1, 3),
                   OpImm(6, 1, 4), OpImm(6, 1, 5), OpImm(6, 1, 6), OpImm(6, 1, 7),
                   Op(15, 0, 1, 5), Op(15, 0, 1, 8), Op(0, 0, 14, 14)>>) }

\* Words outside the opcode table: 6001 wwww 00EE 00EE, with V0 = 1 and V1 = 0
\* when the word is dispatched
UnlistedWords ==
    { OpAddr(0, 291), OpAddr(0, 225), Op(5, 0, 0, 1), Op(5, 0, 1, 1), Op(5, 10, 11, 15),
      Op(9, 0, 1, 1), Op(9, 1, 1, 1), Op(9, 0, 0, 15), Op(8, 0, 1, 8), Op(8, 0, 1, 13),
      Op(8, 0, 1, 15), Op(14, 0, 0, 0), Op(14, 1, 9, 15), Op(14, 0, 10, 2),
      Op(15, 0, 0, 0), Op(15, 0, 6, 6), Op(15, 1, 15, 15), Op(15, 15, 15, 15) }

UnlistedRoms ==
    { Bytes(<<OpImm(6, 0, 1), w, Op(0, 0, 14, 14), Op(0, 0, 14, 14)>>) : w \in UnlistedWords }

\* Programs of jumps and skips, taken and not taken
AdvanceRoms ==
    { \* 6004 B204 00EE 00EE 00EE: jumps to 0x204 + V0 = 0x208
      Bytes(<<OpImm(6, 0, 4), OpAddr(11, 516), Op(0, 0, 14, 14), Op(0, 0, 14, 14),
              Op(0, 0, 14, 14)>>),
      \* 6007 3007 00EE 4007 3008 4008 00EE 5010 9010 00EE 5000 00EE 00EE
      Bytes(<<OpImm(6, 0, 7), OpImm(3, 0, 7), Op(0, 0, 14, 14), OpImm(4, 0, 7),
              OpImm(3, 0, 8), OpImm(4, 0, 8), Op(0, 0, 14, 14), Op(5, 0, 1, 0),
              Op(9, 0, 1, 0), Op(0, 0, 14, 14), Op(5, 0, 0, 0), Op(0, 0, 14, 14),
              Op(0, 0, 14, 14)>>),
      \* 6007 E09E 00EE E0A1 00EE 00EE: skips on key 7
      Bytes(<<OpImm(6, 0, 7), Op(14, 0, 9, 14), Op(0, 0, 14, 14), Op(14, 0, 10, 1),
              Op(0, 0, 14, 14), Op(0, 0, 14, 14)>>) }

\* Programs that draw.  60xx 61yy A000 gggg A210 D01n D01n 00EE and 15 bytes
\* of sprite data at 0x210: gggg is D015 (the glyph 0 as background under the
\* sprite) or 00E0; then the sprite is drawn twice at (xx, yy).
SpriteData == <<255, 129, 165, 60, 1, 128, 195, 24, 231, 90, 15, 240, 85, 170, 255>>
SpriteAt == PROGRAM_START + 16
DrawPositions == {<<0, 0>>, <<60, 30>>, <<255, 255>>, <<62, 20>>, <<200, 100>>}
DrawLengths == {0, 1, 5, 15}
DrawRom(pos, n, ground) ==
    Bytes(<<OpImm(6, 0, pos[1]), OpImm(6, 1, pos[2]), OpAddr(10, 0), ground,
            OpAddr(10, SpriteAt), Op(13, 0, 1, n), Op(13, 0, 1, n), Op(0, 0, 14, 14)>>)
    \o SpriteData

DrawRoms ==
    { DrawRom(pos, n, ground) :
        pos \in DrawPositions, n \in DrawLengths, ground \in {Op(13, 0, 1, 5), Op(0, 0, 14, 0)} }
    \* 6F3E 6105 A000 DF15 DF15 00EE: the column is read from VF
    \cup { Bytes(<<OpImm(6, 15, 62), OpImm(6, 1, 5), OpAddr(10, 0), Op(13, 15, 1, 5),
                   Op(13, 15, 1, 5), Op(0, 0, 14, 14)>>) }

\* 60dd 6103 6204 F029 D125 00EE: the glyph of digit d drawn at (3, 4)
GlyphRom(d) ==
    Bytes(<<OpImm(6, 0, d), OpImm(6, 1, 3), OpImm(6, 2, 4), Op(15, 0, 2, 9),
            Op(13, 1, 2, 5), Op(0, 0, 14, 14)>>)

GlyphRoms == { GlyphRom(d) : d \in 0..15 }

\* 6xaa 6ybb wwww 00EE 00EE for the four skips, on registers x and y that
\* hold equal and different values, VF among them
SkipWords(x, y) == {OpImm(3, x, 9), OpImm(4, x, 9), Op(5, x, y, 0), Op(9, x, y, 0)}
SkipRoms ==
    UNION { { Bytes(<<OpImm(6, x, a), OpImm(6, 1, 9), w, Op(0, 0, 14, 14),
                      Op(0, 0, 14, 14)>>) : w \in SkipWords(x, 1) } :
            x \in {0, 15}, a \in {0, 9} }

\* 6xvv Annn Fx33 00EE: the decimal digits of vv stored at nnn
BcdValues == {0, 7, 10, 99, 100, 128, 209, 255}
BcdRoms ==
    { Bytes(<<OpImm(6, x, val), OpAddr(10, at), Op(15, x, 3, 3), Op(0, 0, 14, 14)>>) :
        x \in {0, 15}, val \in BcdValues, at \in {768, 4093} }

\* 6011 6122 6233 6F44 Annn Fx55 60AA 62BB 6FCC Fx65 00EE: the registers are
\* stored at nnn, three of them are overwritten, and the registers are loaded
RegRom(x, at) ==
    Bytes(<<OpImm(6, 0, 17), OpImm(6, 1, 34), OpImm(6, 2, 51), OpImm(6, 15, 68),
            OpAddr(10, at), Op(15, x, 5, 5), OpImm(6, 0, 170), OpImm(6, 2, 187),
            OpImm(6, 15, 204), Op(15, x, 6, 5), Op(0, 0, 14, 14)>>)

RegRoms == { RegRom(x, 768) : x \in {0, 1, 2, 15} } \cup { RegRom(x, 4095 - x) : x \in {0, 2, 15} }

Roms ==
    ArithRoms \cup ScenarioRoms \cup StackRoms \cup EdgeRoms \cup FaultRoms \cup FillRoms
    \cup KeyRoms \cup TimerRoms \cup UnlistedRoms \cup AdvanceRoms \cup DrawRoms
    \cup GlyphRoms \cup SkipRoms \cup BcdRoms \cup RegRoms

\* ---- Init: the state CPU::new returns, with Window::new and Audio::new

Init ==
    /\ ram = preload_ram([a \in 0..(RAM_SIZE - 1) |-> 0])
    /\ v = [j \in 0..(REGISTER_COUNT - 1) |-> 0]
    /\ i = 0
    /\ dt = 0
    /\ st = 0
    /\ stack = [j \in 0..(STACK_SIZE - 1) |-> 0]
    /\ sp = 0
    /\ pc = PROGRAM_START
    /\ framebuffer = [j \in 0..(WIDTH * HEIGHT - 1) |-> PX_OFF]
    /\ playing = FALSE
    /\ executing = TRUE
    /\ waiting_for_keypress = FALSE
    /\ store_keypress_in = 0
    /\ time_to_runloop = RUNLOOP_TIMER_DEFAULT
    /\ keys_pressed = [j \in 0..15 |-> FALSE]
    /\ instruction = 0
    /\ status = "new"
    /\ rom = <<>>
    /\ overflow_checks = "unobserved"
    /\ ticks = 0
    /\ dispatched = FALSE
    /\ call_sites = <<>>
    /\ keys_before = [j \in 0..15 |-> FALSE]
    /\ timer_steps = <<>>
    /\ cancelled = FALSE

\* load_rom(rom), once, on the new CPU, for a program of the set roms
Load(roms) ==
    /\ status = "new"
    /\ \E bytes \in roms :
         LET loaded == load_rom(ram, bytes) IN
         /\ rom' = bytes
         /\ ram' = loaded.ram
         /\ status' = IF loaded.ok THEN "loaded" ELSE ERR_ROM_TOO_LARGE
    /\ UNCHANGED <<v, i, dt, st, stack, sp, pc, framebuffer, playing, executing,
                   waiting_for_keypress, store_keypress_in, time_to_runloop,
                   keys_pressed, instruction, overflow_checks, ticks, dispatched,
                   call_sites, keys_before, timer_steps, cancelled>>

LoadRom == Load(Roms)

\* run_loop is entered: its locals are initialised
RunLoopStart ==
    /\ status = "loaded"
    /\ status' = "running"
    /\ executing' = TRUE
    /\ waiting_for_keypress' = FALSE
    /\ store_keypress_in' = 0
    /\ time_to_runloop' = RUNLOOP_TIMER_DEFAULT
    /\ UNCHANGED <<ram, v, i, dt, st, stack, sp, pc, framebuffer, playing,
                   keys_pressed, instruction, rom, overflow_checks, ticks,
                   dispatched, call_sites, keys_before, timer_steps, cancelled>>

\* The history of calls after an iteration that fetched its word at address
\* at with depth entries on the stack
calls_after(sites, r, at, depth) ==
    IF r.dispatched /\ r.outcome = "continue" /\ IsCall(r.instruction)
    THEN Append(sites, [site |-> at, depth |-> depth])
    ELSE IF r.dispatched /\ r.outcome = "continue" /\ IsRet(r.instruction)
    THEN SubSeq(sites, 1, Len(sites) - 1)
    ELSE sites

\* One iteration: the window is open, escape is up and pc <= RAM_SIZE
Iteration ==
    /\ status = "running"
    /\ \E is_open \in BOOLEAN, escape \in BOOLEAN :
         /\ loop_condition(is_open, escape, pc)
         /\ cancelled' = (~is_open \/ escape)
    /\ \E down \in HostKeySets :
         LET keys == handle_key_events(down)
             woken == wake(Machine, keys)
             word == IF fetchable(woken) /\ woken.executing THEN fetch(woken) ELSE 0
             overflows == IsGlyph(word) /\ glyph_overflows(woken, get_hex_digits(word, 1, 2))
         IN
         \E rnd \in (IF IsRandom(word) THEN RandomBytes ELSE {0}) :
         \E checks \in (IF overflow_checks = "unobserved"
                        THEN (IF overflows THEN BOOLEAN ELSE {TRUE})
                        ELSE {overflow_checks = "on"}) :
           \E r \in {loop_body(Machine, keys, rnd, checks)} :
           /\ keys_pressed' = keys
           /\ overflow_checks' = IF overflow_checks = "unobserved" /\ overflows
                                 THEN (IF checks THEN "on" ELSE "off")
                                 ELSE overflow_checks
           /\ ram' = r.ram
           /\ v' = r.v
           /\ i' = r.i
           /\ dt' = r.dt
           /\ st' = r.st
           /\ stack' = r.stack
           /\ sp' = r.sp
           /\ pc' = r.pc
           /\ framebuffer' = r.framebuffer
           /\ playing' = r.playing
           /\ executing' = r.executing
           /\ waiting_for_keypress' = r.waiting_for_keypress
           /\ store_keypress_in' = r.store_keypress_in
           /\ time_to_runloop' = r.time_to_runloop
           /\ instruction' = r.instruction
           /\ dispatched' = r.dispatched
           /\ status' = IF r.outcome = "continue" THEN "running" ELSE r.outcome
           /\ call_sites' = calls_after(call_sites, r, pc, sp)
    /\ keys_before' = IF waiting_for_keypress
                      THEN keys_pressed
                      ELSE [j \in 0..15 |-> FALSE]
    /\ UNCHANGED rom

\* An iteration among the first MaxTicks, with its number recorded and, when
\* it ran the timer step, added to the history of timer steps
Iterate ==
    /\ ticks < MaxTicks
    /\ Iteration
    /\ ticks' = ticks + 1
    /\ timer_steps' = IF status' = "running" /\ time_to_runloop = 0
                      THEN Append(timer_steps, ticks + 1)
                      ELSE timer_steps

\* The loop condition fails: the window was closed, escape is down, or
\* pc > RAM_SIZE; run_loop returns Ok(())
ExitLoop ==
    /\ status = "running"
    /\ \E is_open \in BOOLEAN, escape \in BOOLEAN :
         /\ ~loop_condition(is_open, escape, pc)
         /\ cancelled' = (~is_open \/ escape)
    /\ status' = "ok"
    /\ UNCHANGED <<ram, v, i, dt, st, stack, sp, pc, framebuffer, playing, executing,
                   waiting_for_keypress, store_keypress_in, time_to_runloop,
                   keys_pressed, instruction, rom, overflow_checks, ticks, dispatched,
                   call_sites, keys_before, timer_steps>>

Next == LoadRom \/ RunLoopStart \/ Iterate \/ ExitLoop

Spec == Init /\ [][Next]_vars

\* ------------------------------------------------------------------ claims

\* The step is an iteration of the run loop that dispatched the word it
\* fetched (instruction') and did not end the run
Dispatches == status = "running" /\ ticks' = ticks + 1 /\ dispatched'
Completes == Dispatches /\ status' = "running"

\* The registers as the dispatched instruction found them: after the key that
\* ended a wait, if any, was stored
PreV == wake(Machine, keys_pressed').v

\* The register digits of the dispatched word wxyz
X == get_hex_digits(instruction', 1, 2)
Y == get_hex_digits(instruction', 1, 1)
IsAlu(z) == instruction' \in 32768..36863 /\ get_hex_digits(instruction', 1, 0) = z

\* The registers other than x and VF keep their values
OthersKept(x) == \A r \in Regs \ {x, 15} : v'[r] = PreV[r]

\* C1 as stated: after 8xy4, VF is the carry of Vx + Vy and Vx is the sum
\* modulo 256, for every x and y in 0..15.
C1_AsStated ==
    [][Completes /\ IsAlu(4) =>
         /\ v'[15] = (IF PreV[X] + PreV[Y] > 255 THEN 1 ELSE 0)
         /\ v'[X] = (PreV[X] + PreV[Y]) % 256]_vars

\* C1, amended: after 8xy4, VF is 1 iff the unsigned sum of the pre-instruction
\* Vx and Vy exceeds 255 and 0 otherwise, for every x and y in 0..15; Vx is
\* the sum modulo 256 for x in 0..14 (for x = 15 the flag, written last, is
\* what VF holds); no other register changes.  The first scenario ends with
\* V0 = 15, VF = 0 and the second with VE = 0, VF = 1.
C1_AddCarry ==
    /\ [][Completes /\ IsAlu(4) =>
            /\ v'[15] = (IF PreV[X] + PreV[Y] > 255 THEN 1 ELSE 0)
            /\ (X /= 15 => v'[X] = (PreV[X] + PreV[Y]) % 256)
            /\ OthersKept(X)]_vars
    /\ [](rom = <<96, 10, 97, 5, 128, 20>> /\ dispatched /\ instruction = 32788
            => v[0] = 15 /\ v[15] = 0)
    /\ [](rom = <<111, 255, 110, 1, 142, 244>> /\ dispatched /\ instruction = 36596
            => v[14] = 0 /\ v[15] = 1)

\* 8FF4 ran on VF = 128: the sum is 256 and VF holds the carry, 1
C1_Witness ==
    /\ dispatched /\ status = "running" /\ instruction = Op(8, 15, 15, 4)
    /\ v[15] = 1 /\ pc = PROGRAM_START + 6

\* C2 as stated: after 8xy5, VF is 0 iff Vx < Vy and Vx is (Vx - Vy) modulo
\* 256, for every x and y in 0..15.
C2_AsStated ==
    [][Completes /\ IsAlu(5) =>
         /\ v'[15] = (IF PreV[X] < PreV[Y] THEN 0 ELSE 1)
         /\ v'[X] = (PreV[X] - PreV[Y] + 256) % 256]_vars

\* C2, amended: after 8xy5, VF is 0 iff the pre-instruction Vx < Vy and 1
\* otherwise, for every x and y in 0..15; Vx is (Vx - Vy) modulo 256 for x in
\* 0..14 (for x = 15 VF holds the flag); no other register changes.
C2_SubBorrow ==
    [][Completes /\ IsAlu(5) =>
         /\ v'[15] = (IF PreV[X] < PreV[Y] THEN 0 ELSE 1)
         /\ (X /= 15 => v'[X] = (PreV[X] - PreV[Y] + 256) % 256)
         /\ OthersKept(X)]_vars

\* 8075 ran on V0 = V7: no borrow, V0 = 0 and VF = 1
C2_Witness ==
    /\ dispatched /\ status = "running" /\ instruction = Op(8, 0, 7, 5)
    /\ v[0] = 0 /\ v[7] = 128 /\ v[15] = 1

\* C3 as stated: after 8xy6 (8xyE), VF is bit 0 (bit 7) of the pre-instruction
\* Vx and Vx is that value shifted right (left, modulo 256), for every x in 0..15.
C3_AsStated ==
    /\ [][Completes /\ IsAlu(6) =>
            v'[15] = PreV[X] % 2 /\ v'[X] = PreV[X] \div 2]_vars
    /\ [][Completes /\ IsAlu(14) =>
            v'[15] = PreV[X] \div 128 /\ v'[X] = (PreV[X] * 2) % 256]_vars

\* C3, amended: for x in 0..14, after 8xy6 (8xyE) VF is bit 0 (bit 7) of the
\* pre-instruction Vx and Vx is that value shifted right (left, modulo 256);
\* for x = 15 the shifted value, written last, is what VF holds; no other
\* register changes.
C3_ShiftFlag ==
    /\ [][Completes /\ IsAlu(6) =>
            /\ v'[X] = PreV[X] \div 2
            /\ (X /= 15 => v'[15] = PreV[X] % 2)
            /\ OthersKept(X)]_vars
    /\ [][Completes /\ IsAlu(14) =>
            /\ v'[X] = (PreV[X] * 2) % 256
            /\ (X /= 15 => v'[15] = PreV[X] \div 128)
            /\ OthersKept(X)]_vars

\* 870E ran on V7 = 255: V7 = 254 and VF = 1
C3_Witness ==
    /\ dispatched /\ status = "running" /\ instruction = Op(8, 7, 0, 14)
    /\ v[7] = 254 /\ v[15] = 1

\* C4: a call executed at address a with fewer than 16 stack entries pushes
\* one entry and goes to its target, and the return that matches it (the one
\* executed when that call is the latest not yet returned from) leaves
\* pc = a + 2 and the stack depth at its value before the call.
C4_CallReturn ==
    /\ [][Completes /\ IsCall(instruction') =>
            /\ sp < STACK_SIZE
            /\ sp' = sp + 1
            /\ pc' = get_hex_digits(instruction', 3, 0)
            /\ call_sites' = Append(call_sites, [site |-> pc, depth |-> sp])]_vars
    /\ [][Completes /\ IsRet(instruction') =>
            /\ call_sites /= <<>>
            /\ pc' = call_sites[Len(call_sites)].site + 2
            /\ sp' = call_sites[Len(call_sites)].depth]_vars

\* In 2204 00EE 2208 00EE 00EE the return at 0x208 matched the call at 0x204,
\* made at depth 1
C4_Witness ==
    /\ dispatched /\ status = "running" /\ instruction = 238
    /\ pc = PROGRAM_START + 6 /\ sp = 1
    /\ call_sites = <<[site |-> PROGRAM_START, depth |-> 0]>>

\* C5: a call executed with 16 entries on the stack ends the run with the
\* stack-full error and one with fewer does not end it; in the program of
\* nested calls (2200 at 0x200) the first 16 calls succeed and the 17th fails.
C5_StackOverflow ==
    /\ [][Dispatches /\ IsCall(instruction') =>
            (status' = ERR_STACK_FULL <=> sp = STACK_SIZE)
            /\ (status' = "running" <=> sp < STACK_SIZE)]_vars
    /\ [](status = ERR_STACK_FULL => dispatched /\ IsCall(instruction) /\ sp = STACK_SIZE)
    /\ [](rom = <<34, 0>> /\ status = "running" => sp = ticks)
    /\ [](rom = <<34, 0>> /\ status = ERR_STACK_FULL => ticks = STACK_SIZE + 1)

\* The 17th call of 2200 failed
C5_Witness ==
    /\ rom = <<34, 0>> /\ status = ERR_STACK_FULL
    /\ ticks = STACK_SIZE + 1 /\ sp = STACK_SIZE /\ instruction = OpAddr(2, PROGRAM_START)

\* C6: a return executed with the stack empty ends the run with the
\* stack-empty error, which is not the stack-full error; a program that starts
\* with 00EE fails on its first executed instruction.
C6_StackUnderflow ==
    /\ [][Dispatches /\ IsRet(instruction') =>
            (status' = ERR_STACK_EMPTY <=> sp = 0)
            /\ (status' = "running" <=> sp > 0)]_vars
    /\ [](status = ERR_STACK_EMPTY => dispatched /\ IsRet(instruction) /\ sp = 0)
    /\ [](ERR_STACK_EMPTY /= ERR_STACK_FULL)
    /\ [](Len(rom) >= 2 /\ rom[1] = 0 /\ rom[2] = 238 /\ ticks >= 1
            => status = ERR_STACK_EMPTY /\ ticks = 1)

\* 00EE as the whole program failed in the first iteration
C6_Witness ==
    /\ rom = <<0, 238>> /\ status = ERR_STACK_EMPTY /\ ticks = 1 /\ pc = PROGRAM_START

\* How a run ends abnormally: an Err of run_loop or a panic
Abnormal == {ERR_STACK_EMPTY, ERR_STACK_FULL, "panic"}

\* C7 as stated: when the execution of an instruction ends the run loop
\* abnormally, the registers, I, memory, the stack and its depth, the PC and
\* both timers are as they were when the instruction was dispatched.
C7_AsStated ==
    [][Dispatches /\ status' \in Abnormal =>
         /\ v' = PreV
         /\ i' = i
         /\ ram' = ram
         /\ stack' = stack
         /\ sp' = sp
         /\ pc' = pc
         /\ dt' = dt
         /\ st' = st]_vars

\* C8: the stack pointer is between 0 and 16 in every reachable state, and is
\* the number of calls not yet returned from.
C8_StackDepth == sp \in 0..STACK_SIZE /\ sp = Len(call_sites)

\* The stack is full, after 16 calls
C8_Witness == sp = STACK_SIZE /\ status = "running" /\ Len(call_sites) = STACK_SIZE

\* C9: load_rom fails iff 0x200 + len(rom) >= 4096; on failure memory is
\* unchanged; on success memory[0x200 + j] = rom[j] for every j < len(rom)
\* and every other byte, the glyph table included, is unchanged.
C9_LoadRom ==
    /\ [][status = "new" /\ status' /= "new" =>
            /\ status' \in {"loaded", ERR_ROM_TOO_LARGE}
            /\ (status' = ERR_ROM_TOO_LARGE <=> PROGRAM_START + Len(rom') >= RAM_SIZE)
            /\ (status' = ERR_ROM_TOO_LARGE => ram' = ram)
            /\ (status' = "loaded" =>
                  \A a \in 0..(RAM_SIZE - 1) :
                     ram'[a] = IF a - PROGRAM_START \in 0..(Len(rom') - 1)
                               THEN rom'[a - PROGRAM_START + 1]
                               ELSE ram[a])]_vars
    /\ [](status \in {"new", "loaded", ERR_ROM_TOO_LARGE} =>
            \A d \in 0..15 : \A k \in 0..4 : ram[16 * d + k] = RAM_DIGITS[d + 1][k + 1])

\* The largest ROM that fits was loaded, its last byte at 0xFFE
C9_Witness ==
    /\ status = "loaded" /\ Len(rom) = RAM_SIZE - PROGRAM_START - 1
    /\ ram[RAM_SIZE - 2] = 238 /\ ram[RAM_SIZE - 1] = 0 /\ ram[0] = 240

\* C10 as stated: an iteration of the run loop that fetches finds pc and
\* pc + 1 in 0..4095; with the PC outside that range the loop exits instead.
C10_AsStated ==
    [][status = "running" /\ ticks' = ticks + 1 =>
         pc \in 0..(RAM_SIZE - 1) /\ pc + 1 \in 0..(RAM_SIZE - 1)]_vars

\* The step is an iteration of the run loop, entered with or without dispatch
Iterates == status = "running" /\ ticks' = ticks + 1
NoKeyDown(keys) == \A k \in DOMAIN keys : ~keys[k]
LowestDown(keys) == CHOOSE k \in DOMAIN keys : keys[k] /\ \A m \in 0..(k - 1) : ~keys[m]

\* A timer after a timer step: one less if nonzero, zero if zero
CountedDown(t) == IF t > 0 THEN t - 1 ELSE 0

\* C11 as stated: an iteration entered while waiting for a key, with no key
\* down in its snapshot, executes no instruction and changes none of PC, I,
\* V0..VF, memory, the stack and the framebuffer, while the frame counter
\* advances and the timer step runs on its schedule.
C11_AsStated ==
    [][Iterates /\ waiting_for_keypress /\ NoKeyDown(keys_pressed') =>
         /\ ~dispatched'
         /\ pc' = pc /\ i' = i /\ v' = v /\ ram' = ram
         /\ stack' = stack /\ sp' = sp /\ framebuffer' = framebuffer
         /\ status' = "running"
         /\ waiting_for_keypress'
         /\ IF time_to_runloop = 0
            THEN /\ time_to_runloop' = RUNLOOP_TIMER_DEFAULT
                 /\ dt' = CountedDown(dt) /\ st' = CountedDown(st)
            ELSE /\ time_to_runloop' = time_to_runloop - 1
                 /\ dt' = dt /\ st' = st]_vars

\* The same with the program counter on a fetchable address: what the code does
\* whenever the fetch of the waiting iteration does not run off ram
C11_WaitingTickInRange ==
    [][Iterates /\ waiting_for_keypress /\ NoKeyDown(keys_pressed')
         /\ pc + 1 < RAM_SIZE =>
         /\ ~dispatched'
         /\ pc' = pc /\ i' = i /\ v' = v /\ ram' = ram
         /\ stack' = stack /\ sp' = sp /\ framebuffer' = framebuffer
         /\ status' = "running"
         /\ waiting_for_keypress'
         /\ IF time_to_runloop = 0
            THEN /\ time_to_runloop' = RUNLOOP_TIMER_DEFAULT
                 /\ dt' = CountedDown(dt) /\ st' = CountedDown(st)
            ELSE /\ time_to_runloop' = time_to_runloop - 1
                 /\ dt' = dt /\ st' = st]_vars

\* The iteration was entered waiting and left the wait: the mode is Running
\* again, or the word fetched after the wake was dispatched
Woke == Iterates /\ waiting_for_keypress /\ (executing' \/ dispatched')

\* C12: an iteration that leaves the wait on a snapshot with keys down writes
\* the lowest key index that is down into the register named by the Fx0A and
\* no other register, and the mode is Running: the word at pc is dispatched in
\* the same iteration on those registers.
C12_WakeLowestKey ==
    [][Iterates /\ waiting_for_keypress /\ ~NoKeyDown(keys_pressed') =>
         LET woken == [v EXCEPT ![store_keypress_in] = LowestDown(keys_pressed')] IN
         /\ PreV = woken
         /\ (pc + 1 < RAM_SIZE => dispatched')
         /\ (~dispatched' \/ IsRet(instruction') =>
               v' = woken /\ executing' /\ ~waiting_for_keypress')
         /\ (dispatched' /\ instruction' = OpImm(6, 1, 5) =>
               v' = [woken EXCEPT ![1] = 5] /\ executing' /\ ~waiting_for_keypress')]_vars

\* Keys 1 and 7 are down when F70A's wait ends: V7 = 1 and 00EE was dispatched
C12_Witness ==
    /\ rom = Bytes(<<Op(15, 7, 0, 10), Op(0, 0, 14, 14)>>)
    /\ keys_pressed[1] /\ keys_pressed[7]
    /\ dispatched /\ instruction = Op(0, 0, 14, 14)
    /\ v = [j \in 0..(REGISTER_COUNT - 1) |-> IF j = 7 THEN 1 ELSE 0]
    /\ executing /\ ~waiting_for_keypress

\* C13 as stated: the wait ends on an iteration only if some key is down in
\* its snapshot that was not down in the snapshot of the iteration before.
C13_AsStated ==
    [][Woke => \E k \in 0..15 : keys_pressed'[k] /\ ~keys_pressed[k]]_vars

\* What run_loop does: the wait ends on an iteration if and only if some key
\* is down in that iteration's snapshot, whatever the snapshot before was; no
\* earlier snapshot is kept, so a key held since before the Fx0A ends the wait
\* on the first iteration after the Fx0A.
C13_WakeOnLevel ==
    [][Iterates /\ waiting_for_keypress =>
         /\ (Woke <=> ~NoKeyDown(keys_pressed'))
         /\ (NoKeyDown(keys_pressed') => waiting_for_keypress' /\ ~executing')]_vars

\* The failing run: F70A ran at iteration 1 with key 7 down, and the wait
\* ended at iteration 2 with the same key still down
C13_Witness ==
    /\ rom = Bytes(<<Op(15, 7, 0, 10), Op(0, 0, 14, 14)>>)
    /\ ticks = 2
    /\ keys_before[7] /\ keys_pressed[7] /\ keys_before = keys_pressed
    /\ ~waiting_for_keypress /\ v[7] = 7 /\ dispatched

\* C14 as stated: consecutive timer steps are exactly 8 iterations apart.
C14_AsStated ==
    \A n \in 2..Len(timer_steps) :
        timer_steps[n] - timer_steps[n - 1] = RUNLOOP_TIMER_DEFAULT

\* What run_loop does: time_to_runloop counts 8, 7, .., 0 and the step runs in
\* the iteration that finds it 0, the 9th, 18th, .. iteration
C14_EveryNinth ==
    \A n \in 1..Len(timer_steps) : timer_steps[n] = (RUNLOOP_TIMER_DEFAULT + 1) * n

\* The dispatched word is Fx15 (set the delay timer), Fx18 (set the sound timer)
IsSetDelay(ins) == ins \in 61440..65381 /\ ins % 256 = 21
IsSetSound(ins) == ins \in 61440..65381 /\ ins % 256 = 24

\* The timers as the timer step of this iteration finds them: what Fx15 or
\* Fx18 stored if this iteration dispatched one, the old value otherwise
DtSet == IF dispatched' /\ IsSetDelay(instruction') THEN PreV[X] ELSE dt
StSet == IF dispatched' /\ IsSetSound(instruction') THEN PreV[X] ELSE st
TimerStepRuns == Iterates /\ status' = "running" /\ time_to_runloop = 0

\* C15 as stated: at the end of every loop iteration, a nonzero sound timer
\* implies that the tone is active.
C15_AsStated ==
    status = "running" /\ ticks > 0 /\ st > 0 => playing

\* C15, amended: the tone is switched by the timer step only.  At the end of
\* an iteration that ran the timer step the tone is active iff the sound timer
\* was nonzero when the step began, so a nonzero sound timer then implies an
\* active tone; any other step leaves the tone as it was, also after an Fx18
\* that set a nonzero sound timer.
C15_ToneAtTimerStep ==
    [][/\ (TimerStepRuns => (playing' = (StSet > 0)) /\ (st' > 0 => playing'))
       /\ (~TimerStepRuns => playing' = playing)]_vars

\* The first timer step found the sound timer at 3 and started the tone
C15_Witness ==
    /\ timer_steps = <<RUNLOOP_TIMER_DEFAULT + 1>> /\ ticks = RUNLOOP_TIMER_DEFAULT + 1
    /\ st = 2 /\ playing /\ status = "running"

\* C16: a timer step takes 1 from each timer that is nonzero and leaves a
\* zero timer at 0, each on its own; the timers stay in 0..255; outside timer
\* steps the delay timer changes only by Fx15 and the sound timer only by Fx18.
C16_Timers ==
    /\ [](dt \in Byte /\ st \in Byte)
    /\ [][/\ (TimerStepRuns => dt' = CountedDown(DtSet) /\ st' = CountedDown(StSet))
          /\ (Iterates /\ ~TimerStepRuns => dt' = DtSet /\ st' = StSet)
          /\ (~Iterates => dt' = dt /\ st' = st)]_vars

\* The second timer step found the delay timer at 0 and the sound timer at 2
C16_Witness ==
    /\ Len(timer_steps) = 2 /\ ticks = 2 * (RUNLOOP_TIMER_DEFAULT + 1)
    /\ rom = Bytes(<<OpImm(6, 0, 1), OpImm(6, 1, 3), Op(15, 0, 1, 5), Op(15, 1, 1, 8),
                     OpAddr(1, PROGRAM_START + 8)>>)
    /\ dt = 0 /\ st = 1 /\ status = "running"

\* The low byte of a word, and the words that match no pattern of the opcode
\* table (00E0, 00EE, 1nnn .. 4xkk, 5xy0, 6xkk, 7xkk, 8xy0..8xy7, 8xyE, 9xy0,
\* Annn .. Dxyn, Ex9E, ExA1, Fx07, Fx0A, Fx15, Fx18, Fx1E, Fx29, Fx33, Fx55, Fx65)
Low(ins) == ins % 256
NotInTable(ins) ==
    \/ ins \in 0..4095 /\ ins \notin {224, 238}
    \/ ins \in 20480..24575 /\ ins % 16 # 0
    \/ ins \in 36864..40959 /\ ins % 16 # 0
    \/ ins \in 32768..36863 /\ ins % 16 \in {8, 9, 10, 11, 12, 13, 15}
    \/ ins \in 57344..61439 /\ Low(ins) \notin {158, 161}
    \/ ins \in 61440..65535 /\ Low(ins) \notin {7, 10, 21, 24, 30, 41, 51, 85, 101}

\* The dispatched word changed nothing but the program counter
OnlyPcMoved ==
    /\ status' = "running"
    /\ v' = PreV /\ i' = i /\ ram' = ram /\ stack' = stack /\ sp' = sp
    /\ framebuffer' = framebuffer
    /\ dt' = (IF TimerStepRuns THEN CountedDown(dt) ELSE dt)
    /\ st' = (IF TimerStepRuns THEN CountedDown(st) ELSE st)
    /\ executing' /\ ~waiting_for_keypress'

\* C17 as stated: a dispatched word that matches no pattern of the opcode
\* table ends nothing and changes nothing, except that pc advances by 2.
C17_AsStated ==
    [][Dispatches /\ NotInTable(instruction') => OnlyPcMoved /\ pc' = pc + 2]_vars

\* What run_loop does: 5xyz and 9xyz are matched on their first digit alone and
\* skip like 5xy0 and 9xy0 for every z; the other words advance pc by 2
C17_SkipsForEveryZ ==
    [][Dispatches /\ NotInTable(instruction') =>
         /\ OnlyPcMoved
         /\ pc' = pc + (IF \/ instruction' \in 20480..24575 /\ PreV[X] = PreV[Y]
                           \/ instruction' \in 36864..40959 /\ PreV[X] # PreV[Y]
                        THEN 4 ELSE 2)]_vars

\* The words that set the program counter, and the words that skip
IsJump(ins) == ins \in 4096..8191
IsJumpV0(ins) == ins \in 45056..49151
IsSkip(ins) ==
    \/ ins \in 12288..24575
    \/ ins \in 36864..40959
    \/ ins \in 57344..61439 /\ Low(ins) \in {158, 161}
Target == get_hex_digits(instruction', 3, 0)

\* The program counter after a dispatched word that is no jump, call or
\* return: the automatic advance of 2, after the 2 of a skip that was taken
Advanced ==
    IF IsSkip(instruction') THEN pc' \in {pc + 2, pc + 4} ELSE pc' = pc + 2

\* C18 as stated: after a jump, a call or a return the pc is exactly the
\* value the instruction assigned (the target, the popped return address);
\* after any other instruction it has taken the automatic advance of 2.
C18_AsStated ==
    [][Completes =>
         IF IsJump(instruction') \/ IsCall(instruction') THEN pc' = Target
         ELSE IF IsJumpV0(instruction') THEN pc' = Target + PreV[0]
         ELSE IF IsRet(instruction') THEN pc' = stack[sp - 1]
         ELSE Advanced]_vars

\* C18, amended: jumps (1xyz, Bxyz) and call (2xyz) suppress the automatic
\* advance, so the pc is the target afterwards; return (00EE) does not: the
\* popped entry is the address of the call, and the pc afterwards is that
\* entry plus 2; after any other instruction the pc has advanced by 2 (by 4
\* after a skip that was taken).
C18_PcAdvance ==
    [][Completes =>
         IF IsJump(instruction') \/ IsCall(instruction') THEN pc' = Target
         ELSE IF IsJumpV0(instruction') THEN pc' = Target + PreV[0]
         ELSE IF IsRet(instruction') THEN pc' = stack[sp - 1] + 2 /\ sp' = sp - 1
         ELSE Advanced]_vars

\* A return has popped the address of the call at 0x202 and the pc is 0x204
C18_Witness ==
    /\ dispatched /\ status = "running" /\ IsRet(instruction)
    /\ rom = Bytes(<<OpImm(6, 0, 5), OpAddr(2, 518), OpAddr(1, 514), Op(0, 0, 14, 14)>>)
    /\ stack[sp] = PROGRAM_START + 2 /\ pc = stack[sp] + 2

\* The dispatched word is Dxyn; its n, and the n bytes at I it draws
IsDraw(ins) == ins \in 53248..57343
N == instruction' % 16
Sprite == [k \in 1..N |-> ram[i + k - 1]]

\* The framebuffer under the sprite in the programs of DrawRoms: cleared, or
\* the glyph 0 drawn at the sprite's position
Ground ==
    IF rom[7] * 256 + rom[8] = Op(13, 0, 1, 5)
    THEN draw(clear_screen(framebuffer), [k \in 1..5 |-> RAM_DIGITS[1][k]], rom[2], rom[4]).framebuffer
    ELSE clear_screen(framebuffer)

\* C19: drawing the sprite a Dxyn has just drawn once more, at the same
\* position, gives back the framebuffer the Dxyn found, for every sprite
\* length 0..15 and every position, wrapped or not; in the programs that draw
\* their sprite twice the second draw restores the framebuffer under the sprite.
C19_DrawTwice ==
    /\ [][Completes /\ IsDraw(instruction') =>
            draw(framebuffer', Sprite, PreV[X], PreV[Y]).framebuffer = framebuffer]_vars
    /\ [][Completes /\ IsDraw(instruction') /\ pc = PROGRAM_START + 12
            /\ Len(rom) = 16 + Len(SpriteData) =>
            framebuffer' = Ground]_vars

\* The 15-byte sprite was drawn twice at (60, 30), wrapping around both
\* edges, over the glyph 0: the glyph alone is on the screen again
C19_Witness ==
    /\ rom = DrawRom(<<60, 30>>, 15, Op(13, 0, 1, 5))
    /\ dispatched /\ IsDraw(instruction) /\ pc = PROGRAM_START + 14
    /\ framebuffer = Ground
    /\ framebuffer[30 * WIDTH + 60] = PX_ON /\ framebuffer[30 * WIDTH] = PX_OFF
    /\ framebuffer[60] = PX_ON

\* Bit 7 - j of the sprite's row k, and the pixel a Dxyn toggles: the one at
\* column (Vx + j) mod 64 and row (Vy + k) mod 32 for a set bit j (from the
\* left) of the k-th of the n bytes at I
RowBit(k, j) == (ram[i + k] \div Pow(2, 7 - j)) % 2
Toggled(c) ==
    LET k == ((c \div WIDTH) + HEIGHT - (PreV[Y] % HEIGHT)) % HEIGHT
        j == ((c % WIDTH) + WIDTH - (PreV[X] % WIDTH)) % WIDTH
    IN k < N /\ j < 8 /\ RowBit(k, j) = 1
Flip(px) == IF px = PX_ON THEN PX_OFF ELSE PX_ON

\* C20: a completed Dxyn XORs the n bytes at I, as rows of 8 pixels with the
\* most significant bit leftmost, onto the framebuffer at column (Vx + j) mod
\* 64 and row (Vy + k) mod 32, and leaves VF = 1 iff some pixel that was lit is
\* unlit afterwards, else VF = 0; with n = 0 nothing is drawn and VF = 0.  No
\* other register, nor I, nor memory changes.
C20_DrawSprite ==
    [][Completes /\ IsDraw(instruction') =>
         /\ framebuffer' = [c \in 0..(WIDTH * HEIGHT - 1) |->
                               IF Toggled(c) THEN Flip(framebuffer[c]) ELSE framebuffer[c]]
         /\ v'[15] = (IF \E c \in 0..(WIDTH * HEIGHT - 1) :
                            framebuffer[c] = PX_ON /\ framebuffer'[c] # PX_ON
                      THEN 1 ELSE 0)
         /\ (N = 0 => framebuffer' = framebuffer /\ v'[15] = 0)
         /\ \A r \in Regs \ {15} : v'[r] = PreV[r]
         /\ i' = i /\ ram' = ram /\ pc' = pc + 2]_vars

\* The second draw of the 5-byte sprite at (62, 20) erased lit pixels on both
\* sides of the right edge: VF = 1
C20_Witness ==
    /\ rom = DrawRom(<<62, 20>>, 5, Op(0, 0, 14, 0))
    /\ dispatched /\ IsDraw(instruction) /\ pc = PROGRAM_START + 14
    /\ status = "running" /\ v[15] = 1
    /\ framebuffer = clear_screen(framebuffer)

\* The first draw of the sprite on the cleared screen: VF = 0, and the row FF
\* is lit from column 62 to column 5 of row 20
C20_WitnessFirst ==
    /\ rom = DrawRom(<<62, 20>>, 5, Op(0, 0, 14, 0))
    /\ dispatched /\ IsDraw(instruction) /\ pc = PROGRAM_START + 12
    /\ v[15] = 0
    /\ \A c \in 0..(WIDTH - 1) :
         (framebuffer[20 * WIDTH + c] = PX_ON) <=> (c \in {62, 63, 0, 1, 2, 3, 4, 5})

\* The pixel at column x of row y, and bit 7 - j of row k of the glyph of d
Pixel(fb, x, y) == fb[(y * WIDTH) + x]
GlyphBit(d, k, j) == (RAM_DIGITS[d + 1][k + 1] \div Pow(2, 7 - j)) % 2

\* The digit of the Fx29 dispatched by the iteration before
GlyphDigit == v[get_hex_digits(instruction, 1, 2)]

\* C21: the glyph table is in memory after construction, glyph d at 0x10 * d;
\* Fx29 with Vx = d in 0..15 sets I to 0x10 * d; and a Dxy5 that follows it on
\* a cleared framebuffer lights exactly the pixels of the 5-byte glyph of d.
C21_Glyphs ==
    /\ [](status \in {"new", "loaded"} =>
            \A d \in 0..15 : \A k \in 0..4 : ram[16 * d + k] = RAM_DIGITS[d + 1][k + 1])
    /\ [][Completes /\ IsGlyph(instruction') /\ PreV[X] \in 0..15 =>
            i' = 16 * PreV[X] /\ v' = PreV /\ ram' = ram]_vars
    /\ [][/\ Completes /\ IsDraw(instruction') /\ N = 5
          /\ dispatched /\ IsGlyph(instruction) /\ GlyphDigit \in 0..15
          /\ framebuffer = clear_screen(framebuffer)
          => /\ i = 16 * GlyphDigit
             /\ \A y \in 0..(HEIGHT - 1) : \A x \in 0..(WIDTH - 1) :
                  (Pixel(framebuffer', x, y) = PX_ON) <=>
                     LET k == (y + HEIGHT - (PreV[Y] % HEIGHT)) % HEIGHT
                         j == (x + WIDTH - (PreV[X] % WIDTH)) % WIDTH
                     IN k < 5 /\ j < 8 /\ GlyphBit(GlyphDigit, k, j) = 1]_vars

\* The glyph of F (F0 80 F0 80 80) is on the screen at (3, 4)
C21_Witness ==
    /\ rom = GlyphRom(15) /\ dispatched /\ IsDraw(instruction) /\ i = 240
    /\ \A x \in 0..(WIDTH - 1) :
         /\ (Pixel(framebuffer, x, 4) = PX_ON) <=> x \in 3..6
         /\ (Pixel(framebuffer, x, 5) = PX_ON) <=> x = 3
         /\ (Pixel(framebuffer, x, 6) = PX_ON) <=> x \in 3..6
         /\ (Pixel(framebuffer, x, 8) = PX_ON) <=> x = 3
         /\ Pixel(framebuffer, x, 9) = PX_OFF

\* C22: the loop condition is tested once at the head of every iteration.  A
\* step that finds the window closed or escape down ends the run with Ok(())
\* and does nothing else: no word is fetched or dispatched, and the machine is
\* as the last whole iteration left it, waiting for a key or not.  The run
\* ends with Ok(()) only there or when pc is past RAM_SIZE.
C22_Cancel ==
    /\ [][status = "running" /\ cancelled' =>
            /\ status' = "ok"
            /\ UNCHANGED <<ram, v, i, dt, st, stack, sp, pc, framebuffer, playing,
                           executing, waiting_for_keypress, store_keypress_in,
                           time_to_runloop, keys_pressed, instruction, ticks,
                           dispatched, timer_steps>>]_vars
    /\ [][status = "running" /\ status' = "ok" =>
            cancelled' \/ ~pc_in_loop_range(pc)]_vars
    /\ [][status = "running" /\ ticks' = ticks + 1 => ~cancelled']_vars

\* The run was cancelled while the machine waited for a key, after F70A
C22_Witness ==
    /\ status = "ok" /\ cancelled /\ waiting_for_keypress /\ ~executing
    /\ rom = Bytes(<<Op(15, 7, 0, 10), Op(0, 0, 14, 14)>>)
    /\ ticks = 3 /\ pc = PROGRAM_START + 2 /\ instruction = Op(0, 0, 14, 14)

\* The run was cancelled between two instructions of a running program
C22_WitnessRunning ==
    /\ status = "ok" /\ cancelled /\ executing /\ ~waiting_for_keypress
    /\ ticks = 2 /\ pc = PROGRAM_START + 4 /\ dispatched

\* The condition of the skip 3xkk, 4xkk, 5xy0 or 9xy0 that is dispatched, on
\* the registers it finds
KK == instruction' % 256
IsListedSkip(ins) ==
    \/ ins \in 12288..20479
    \/ ins \in 20480..24575 /\ ins % 16 = 0
    \/ ins \in 36864..40959 /\ ins % 16 = 0
SkipHolds ==
    CASE instruction' \in 12288..16383 -> PreV[X] = KK
      [] instruction' \in 16384..20479 -> PreV[X] # KK
      [] instruction' \in 20480..24575 -> PreV[X] = PreV[Y]
      [] instruction' \in 36864..40959 -> PreV[X] # PreV[Y]

\* C23: a dispatched 3xkk, 4xkk, 5xy0 or 9xy0 advances pc by 4 when its
\* condition holds on the registers it finds and by 2 when it does not, and
\* changes no register, nor I, memory, the stack or a timer.
C23_Skips ==
    [][Dispatches /\ IsListedSkip(instruction') =>
         /\ OnlyPcMoved
         /\ pc' = pc + (IF SkipHolds THEN 4 ELSE 2)]_vars

\* 4F09 found VF = 0 and skipped the 00EE at 0x206
C23_Witness ==
    /\ rom = Bytes(<<OpImm(6, 15, 0), OpImm(6, 1, 9), OpImm(4, 15, 9), Op(0, 0, 14, 14),
                     Op(0, 0, 14, 14)>>)
    /\ dispatched /\ instruction = OpImm(4, 15, 9) /\ status = "running"
    /\ pc = PROGRAM_START + 8 /\ v[15] = 0 /\ v[1] = 9

\* 9F10 found VF = V1 = 9 and did not skip
C23_WitnessNotTaken ==
    /\ dispatched /\ instruction = Op(9, 15, 1, 0) /\ status = "running"
    /\ pc = PROGRAM_START + 6 /\ v[15] = 9 /\ v[1] = 9

\* The dispatched word is Fx33, Fx55, Fx65
IsBcd(ins) == ins \in 61440..65381 /\ Low(ins) = 51
IsStoreRegs(ins) == ins \in 61440..65381 /\ Low(ins) = 85
IsLoadRegs(ins) == ins \in 61440..65381 /\ Low(ins) = 101

\* C24: with I + 2 <= 4095, a dispatched Fx33 completes and writes the
\* hundreds, tens and ones digits of Vx, each in 0..9 and together worth Vx,
\* to memory[I], memory[I+1], memory[I+2]; no other byte of memory, no
\* register and not I changes.
C24_Bcd ==
    [][Dispatches /\ IsBcd(instruction') /\ i + 2 <= RAM_SIZE - 1 =>
         /\ status' = "running"
         /\ \E h \in 0..9, t \in 0..9, o \in 0..9 :
              /\ 100 * h + 10 * t + o = PreV[X]
              /\ ram'[i] = h /\ ram'[i + 1] = t /\ ram'[i + 2] = o
         /\ \A a \in 0..(RAM_SIZE - 1) : a \notin i..(i + 2) => ram'[a] = ram[a]
         /\ v' = PreV /\ i' = i /\ pc' = pc + 2]_vars

\* FF33 stored 2, 0, 9 for VF = 209 in the last three bytes of memory
C24_Witness ==
    /\ dispatched /\ instruction = Op(15, 15, 3, 3) /\ status = "running"
    /\ v[15] = 209 /\ i = 4093
    /\ ram[4093] = 2 /\ ram[4094] = 0 /\ ram[4095] = 9

\* The registers a program of RegRoms stores: V0 = 0x11, V1 = 0x22, V2 = 0x33,
\* VF = 0x44, the others 0
StoredRegs ==
    [r \in 0..(REGISTER_COUNT - 1) |->
        CASE r = 0 -> 17 [] r = 1 -> 34 [] r = 2 -> 51 [] r = 15 -> 68 [] OTHER -> 0]

\* C25: with I + x <= 4095, Fx55 copies V0..Vx to memory[I..I+x] and changes
\* no other byte, and Fx65 copies memory[I..I+x] to V0..Vx; both complete and
\* leave I and the registers above Vx as they were.  In the programs that
\* store, overwrite V0, V2 and VF, and load, the load gives V0..Vx the stored
\* values again.
C25_StoreLoad ==
    /\ [][Dispatches /\ IsStoreRegs(instruction') /\ i + X <= RAM_SIZE - 1 =>
            /\ status' = "running"
            /\ ram' = [a \in 0..(RAM_SIZE - 1) |->
                         IF a \in i..(i + X) THEN PreV[a - i] ELSE ram[a]]
            /\ v' = PreV /\ i' = i /\ pc' = pc + 2]_vars
    /\ [][Dispatches /\ IsLoadRegs(instruction') /\ i + X <= RAM_SIZE - 1 =>
            /\ status' = "running"
            /\ v' = [r \in 0..(REGISTER_COUNT - 1) |->
                       IF r <= X THEN ram[i + r] ELSE PreV[r]]
            /\ ram' = ram /\ i' = i /\ pc' = pc + 2]_vars
    /\ [][Dispatches /\ IsLoadRegs(instruction') /\ rom \in RegRoms =>
            \A r \in 0..X : v'[r] = StoredRegs[r]]_vars

\* F265 after F255 at I = 4093: V0 and V2 hold the stored 0x11 and 0x33 again,
\* VF keeps the 0xCC written in between
C25_Witness ==
    /\ rom = RegRom(2, 4093)
    /\ dispatched /\ instruction = Op(15, 2, 6, 5) /\ status = "running"
    /\ v[0] = 17 /\ v[1] = 34 /\ v[2] = 51 /\ v[15] = 204 /\ i = 4093
    /\ ram[4093] = 17 /\ ram[4095] = 51

\* C26: the word an iteration fetches is memory[pc] * 256 + memory[pc + 1].
\* For every 16-bit word, written with its four hex digits as d3 d2 d1 d0,
\* get_hex_digits gives the digit d_o for (1, o), the byte d1 d0 for (2, 0)
\* and the address d2 d1 d0 for (3, 0), the six pairs the decoder uses: so a
\* register index is in 0..15, an immediate in 0..255, an address in 0..0xFFF.
C26_Decode ==
    /\ [](status = "new" =>
            \A d3 \in 0..15 : \A d2 \in 0..15 : \A d1 \in 0..15 : \A d0 \in 0..15 :
                LET w == ((d3 * 16 + d2) * 16 + d1) * 16 + d0 IN
                /\ get_hex_digits(w, 1, 3) = d3 /\ get_hex_digits(w, 1, 2) = d2
                /\ get_hex_digits(w, 1, 1) = d1 /\ get_hex_digits(w, 1, 0) = d0
                /\ get_hex_digits(w, 2, 0) = d1 * 16 + d0
                /\ get_hex_digits(w, 3, 0) = (d2 * 16 + d1) * 16 + d0)
    /\ [][Iterates /\ pc + 1 < RAM_SIZE =>
            /\ instruction' = ram[pc] * 256 + ram[pc + 1]
            /\ instruction' \in 0..65535
            /\ X \in Regs /\ Y \in Regs /\ KK \in Byte /\ Target \in 0..(RAM_SIZE - 1)]_vars

\* AFFD was fetched from the bytes AF, FD and its address FFD is in I
C26_Witness ==
    /\ dispatched /\ instruction = OpAddr(10, 4093) /\ status = "running"
    /\ ram[pc - 2] = 175 /\ ram[pc - 1] = 253 /\ i = 4093

\* C27 as stated: a dispatched Fx29 completes and sets I to 0x10 * Vx, not
\* truncated to 8 bits, for every value of Vx, and changes nothing else.
C27_AsStated ==
    [][Dispatches /\ IsGlyph(instruction') =>
         /\ status' = "running"
         /\ i' = 16 * PreV[X]
         /\ v' = PreV /\ ram' = ram /\ pc' = pc + 2]_vars

\* What run_loop does: the product is computed in u8.  With Vx >= 16 a build
\* with overflow checks panics and one without leaves I = (0x10 * Vx) mod 256
C27_ProductInU8 ==
    [][Dispatches /\ IsGlyph(instruction') =>
         IF 16 * PreV[X] <= 255
         THEN status' = "running" /\ i' = 16 * PreV[X]
         ELSE \/ status' = "panic" /\ i' = i /\ overflow_checks' = "on"
              \/ status' = "running" /\ i' = (16 * PreV[X]) % 256
                   /\ overflow_checks' = "off"]_vars

\* The dispatched word is Fx0A; the word in memory at address a
IsWaitKey(ins) == ins \in 61440..65381 /\ Low(ins) = 10
WordAt(a) == ram[a] * 256 + ram[a + 1]

\* C28 as stated: Fx0A enters the wait and pc advances by 2; pc does not move
\* in an iteration that stays waiting; the iteration in which a key ends the
\* wait dispatches the word at pc, the one that follows the Fx0A, after the
\* key is in the target register.
C28_AsStated ==
    /\ [][Dispatches /\ IsWaitKey(instruction') =>
            /\ status' = "running" /\ pc' = pc + 2
            /\ waiting_for_keypress' /\ ~executing' /\ store_keypress_in' = X]_vars
    /\ [][Iterates /\ waiting_for_keypress /\ NoKeyDown(keys_pressed') =>
            pc' = pc /\ ~dispatched']_vars
    /\ [][Iterates /\ waiting_for_keypress /\ ~NoKeyDown(keys_pressed') =>
            /\ PreV[store_keypress_in] = LowestDown(keys_pressed')
            /\ dispatched'
            /\ pc + 1 < RAM_SIZE
            /\ instruction' = WordAt(pc)]_vars

\* The same for a wait whose pc and pc + 1 are inside ram
C28_WaitInRange ==
    /\ [][Dispatches /\ IsWaitKey(instruction') =>
            /\ status' = "running" /\ pc' = pc + 2
            /\ waiting_for_keypress' /\ ~executing' /\ store_keypress_in' = X]_vars
    /\ [][Iterates /\ waiting_for_keypress /\ NoKeyDown(keys_pressed') =>
            pc' = pc /\ ~dispatched']_vars
    /\ [][Iterates /\ waiting_for_keypress /\ ~NoKeyDown(keys_pressed')
            /\ pc + 1 < RAM_SIZE =>
            /\ PreV[store_keypress_in] = LowestDown(keys_pressed')
            /\ dispatched'
            /\ instruction' = WordAt(pc)]_vars

\* The highest address the dispatched Dxyn, Fx33, Fx55 or Fx65 indexes
\* memory with, -1 if it indexes none
UsesI(ins) == (IsDraw(ins) /\ ins % 16 > 0) \/ IsBcd(ins) \/ IsStoreRegs(ins) \/ IsLoadRegs(ins)
LastAddress ==
    IF IsDraw(instruction') THEN i + N - 1
    ELSE IF IsBcd(instruction') THEN i + 2
    ELSE IF IsStoreRegs(instruction') \/ IsLoadRegs(instruction') THEN i + X
    ELSE -1

\* C29 as stated: every address a dispatched Dxyn, Fx33, Fx55 or Fx65 indexes
\* memory with is in 0..4095, and the instruction completes.
C29_AsStated ==
    [][Dispatches /\ UsesI(instruction') =>
         LastAddress \in 0..(RAM_SIZE - 1) /\ status' = "running"]_vars

\* What run_loop does: the instruction completes iff its last address is
\* inside ram, and panics on the first index past the end otherwise
C29_PanicsPastEnd ==
    [][Dispatches /\ UsesI(instruction') =>
         (status' = "running" <=> LastAddress <= RAM_SIZE - 1)
         /\ (status' # "running" => status' = "panic")]_vars

\* The dispatched word is Ex9E, ExA1
IsKeyDown(ins) == ins \in 57344..61439 /\ Low(ins) = 158
IsKeyUp(ins) == ins \in 57344..61439 /\ Low(ins) = 161

\* C30 as stated: a dispatched Ex9E or ExA1 finds Vx in 0..15 and completes:
\* Ex9E skips iff key Vx is down in the snapshot of the same iteration, ExA1
\* iff it is up.
C30_AsStated ==
    [][Dispatches /\ (IsKeyDown(instruction') \/ IsKeyUp(instruction')) =>
         /\ PreV[X] \in 0..15
         /\ status' = "running"
         /\ pc' = pc + (IF keys_pressed'[PreV[X]] = IsKeyDown(instruction') THEN 4 ELSE 2)]_vars

\* What run_loop does: with Vx in 0..15 the claim's behaviour, with Vx > 15 a
\* panic on the index into the snapshot
C30_PanicsAbove15 ==
    [][Dispatches /\ (IsKeyDown(instruction') \/ IsKeyUp(instruction')) =>
         IF PreV[X] \in 0..15
         THEN /\ status' = "running"
              /\ pc' = pc + (IF keys_pressed'[PreV[X]] = IsKeyDown(instruction') THEN 4 ELSE 2)
         ELSE status' = "panic" /\ pc' = pc]_vars

\* ------------------------------------------------------------ the timers run out

\* The values the programs below store in the timers
LiveTimerValues == {0, 1, 3}

\* Programs that keep the run loop going: 60aa 61bb F015 F118 1208 sets both
\* timers and spins; 60aa 61bb F015 F118 F20A 120A sets them and waits for a
\* key, then spins; 6002 F015 F018 1202 sets both timers again and again;
\* 6003 F015 F018 00EE sets them and ends the run with a return on an empty stack
LiveRoms ==
    { Bytes(<<OpImm(6, 0, a), OpImm(6, 1, b), Op(15, 0, 1, 5), Op(15, 1, 1, 8),
              OpAddr(1, PROGRAM_START + 8)>>) :
        a \in LiveTimerValues, b \in LiveTimerValues }
    \cup { Bytes(<<OpImm(6, 0, a), OpImm(6, 1, b), Op(15, 0, 1, 5), Op(15, 1, 1, 8),
                   Op(15, 2, 0, 10), OpAddr(1, PROGRAM_START + 10)>>) :
             a \in LiveTimerValues, b \in LiveTimerValues }
    \cup { Bytes(<<OpImm(6, 0, 2), Op(15, 0, 1, 5), Op(15, 0, 1, 8),
                   OpAddr(1, PROGRAM_START + 2)>>),
           Bytes(<<OpImm(6, 0, 3), Op(15, 0, 1, 5), Op(15, 0, 1, 8),
                   Op(0, 0, 14, 14)>>) }

LiveLoadRom == Load(LiveRoms)

\* An iteration of a run of any length: the histories of iteration numbers
\* are not kept
LiveIterate == Iteration /\ UNCHANGED <<ticks, timer_steps>>

LiveNext == LiveLoadRom \/ RunLoopStart \/ LiveIterate \/ ExitLoop

\* run_loop is a plain loop on one thread: while its condition holds, the next
\* iteration is eventually run
LiveSpec == Init /\ [][LiveNext]_vars /\ WF_vars(LiveIterate)

\* The state follows an iteration that executed Fx15, or Fx18
DelaySet == dispatched /\ IsSetDelay(instruction)
SoundSet == dispatched /\ IsSetSound(instruction)

\* C31: while the run loop keeps iterating (the run has not ended, by
\* cancellation or by a fatal error), a nonzero delay timer eventually reaches
\* 0 unless an Fx15 is executed first, and a delay timer at 0 stays at 0 until
\* an Fx15 is executed; a nonzero sound timer eventually reaches 0 with the
\* tone stopped unless an Fx18 is executed first; all this also in iterations
\* that wait for a key.
C31_TimersRunOut ==
    /\ [](status = "running" /\ dt > 0
            => <>(dt = 0 \/ DelaySet \/ status # "running"))
    /\ [][status = "running" /\ dt = 0 => dt' = 0 \/ DelaySet']_vars
    /\ [](status = "running" /\ st > 0
            => <>((st = 0 /\ ~playing) \/ SoundSet \/ status # "running"))

\* Both timers were set to 3 and ran out, and the tone was stopped, while the
\* program waited for a key
C31_Witness ==
    /\ rom = Bytes(<<OpImm(6, 0, 3), OpImm(6, 1, 3), Op(15, 0, 1, 5), Op(15, 1, 1, 8),
                     Op(15, 2, 0, 10), OpAddr(1, PROGRAM_START + 10)>>)
    /\ status = "running" /\ waiting_for_keypress
    /\ dt = 0 /\ st = 0 /\ ~playing

====
